---- MODULE Spec2Model ----
(***************************************************************************)
(* The Glossa interpreter (src/glossa_compiler.py) and the debugger of its *)
(* Tk IDE (src/glossa_ide_tk.py) as a state machine.                       *)
(*                                                                         *)
(* The tree-walking evaluator is unfolded into an abstract machine: `k'    *)
(* is the stack of pending Python activations (top first), `vs' the stack  *)
(* of values already computed for the activations that wait for operands,  *)
(* `envs' the Env objects alive (envs[1] is the root Env, every call       *)
(* pushes its child Env).  One step of the machine is one piece of the     *)
(* Python code between two calls of eval_expr / exec_statements.           *)
(*                                                                         *)
(* Python values are records [t, v] tagged with their Python class.  A     *)
(* float is a fixed-point number: v counts units of 1/Scale, which is      *)
(* exact for the dyadic values the programs below compute.                 *)
(***************************************************************************)
EXTENDS Integers, Sequences, FiniteSets, TLC

VARIABLES
    host,            \* "cli": compile_and_run is called; "ide": the GlossaIDE window
    editor,          \* the text of the editor widget / the source argument of compile_and_run
    src,             \* the source text of the execution in progress (an identifier of Programs)
    entry,           \* the entry point whose exec_statements call is in progress
    k,               \* pending activations of the executor, top first
    vs,              \* values computed and not yet consumed, top first
    envs,            \* the Env objects alive; envs[1] is the root
    outputs,         \* IOHandler.outputs
    input_queue,     \* IOHandler.input_queue / the answers the user will type
    exc,             \* the exception that reached the entry point, or NoExc
    outcome,         \* how the last run ended, as the entry point reported it
    debug_active,    \* GlossaIDE.debug_active
    debug_continue_mode,
    debug_stop_requested,
    debug_hook,      \* TRUE when GlossaIDE.debug_hook is a TkDebuggerHook
    debug_wait_var,  \* GlossaIDE.debug_wait_var
    log,             \* history: hook calls and statement starts of the current run
    runs,            \* number of runs started so far
    suspended,       \* the executions waiting in GUIIO.read for the handler that runs
                     \* inside their dialog, innermost first
    console          \* the lines of the console widget of the IDE (GlossaIDE.output)

vars == <<host, src, entry, k, vs, envs, outputs, input_queue, exc, outcome,
          debug_active, debug_continue_mode, debug_stop_requested, debug_hook,
          debug_wait_var, log, runs, editor, suspended, console>>

\* ------------------------------------------------------------------------
\* Bounds of the model
\* ------------------------------------------------------------------------
\* Operands of the arithmetic programs range over -MaxN .. MaxN.
MaxN == 4
\* Start, end and step of the For programs range over -MaxQ .. MaxQ units of 1/Scale.
MaxQ == 3
\* Array indices tried by the array programs range over 0 .. MaxIdx.
MaxIdx == 3
\* A run is cut off after MaxExec statement starts (loops that never end).
MaxExec == 24
\* Runs started in one behaviour of the IDE.
MaxRuns == 2

\* ------------------------------------------------------------------------
\* Python values
\* ------------------------------------------------------------------------
\* Denominator of the fixed-point floats.
Scale == 2

IntV(n) == [t |-> "int", v |-> n]
FloatV(n) == [t |-> "float", v |-> n]
StrV(s) == [t |-> "str", v |-> s]
BoolV(b) == [t |-> "bool", v |-> b]


\* An exception: its class, its message and, for FunctionReturn, its value
Exc(cls, what) == [cls |-> cls, what |-> what, value |-> [t |-> "NoneType", v |-> 0]]
NoExc == Exc("none", "")

\* The result of a piece of Python code: a value, or an exception raised
Ok(val) == [ok |-> TRUE, val |-> val]
Raise(cls, what) == [ok |-> FALSE, exc |-> Exc(cls, what)]
RuntimeErrorGlossa(what) == Raise("RuntimeErrorGlossa", what)

IsNum(x) == x.t \in {"int", "float", "bool"}
\* int(x) for a bool or an int
AsInt(x) == IF x.t = "bool" THEN (IF x.v THEN 1 ELSE 0) ELSE x.v
\* the numeric value of x in units of 1/Scale
Scaled(x) == IF x.t = "float" THEN x.v ELSE AsInt(x) * Scale
Abs(n) == IF n < 0 THEN -n ELSE n
\* truncation toward zero of n/d, d > 0
TruncDiv(n, d) == IF n >= 0 THEN n \div d ELSE -((-n) \div d)
\* the nearest multiple of 1/Scale to n/d (exact whenever d divides n)
RoundDiv(n, d) == IF d > 0 THEN (2 * n + d) \div (2 * d) ELSE (2 * (-n) + (-d)) \div (2 * (-d))

\* Python truth value bool(x)
Truthy(x) == CASE x.t = "bool" -> x.v
               [] x.t = "str" -> x.v # ""
               [] OTHER -> x.v # 0

\* Python x == y
PyEq(x, y) == IF IsNum(x) /\ IsNum(y) THEN Scaled(x) = Scaled(y)
              ELSE IF x.t = "str" /\ y.t = "str" THEN x.v = y.v
              ELSE FALSE

\* The string literals of the model in Python's order of str.
StrOrder == <<"", "1", "7", "a", "ab", "b", "x">>
StrRank(s) == CHOOSE i \in 1..Len(StrOrder) : StrOrder[i] = s

\* Python x < y, x <= y, x > y, x >= y: numbers with numbers, str with str,
\* anything else is a TypeError.
PyOrder(op, x, y) ==
    LET a == IF x.t = "str" THEN StrRank(x.v) ELSE Scaled(x)
        b == IF y.t = "str" THEN StrRank(y.v) ELSE Scaled(y)
    IN IF (IsNum(x) /\ IsNum(y)) \/ (x.t = "str" /\ y.t = "str")
       THEN Ok(BoolV(CASE op = "LT" -> a < b
                       [] op = "LE" -> a <= b
                       [] op = "GT" -> a > b
                       [] op = "GE" -> a >= b))
       ELSE Raise("TypeError", "unorderable")

\* what int(text) gives for the input lines and string values of the model
IntOfStr(s) == CASE s = "1" -> Ok(IntV(1))
                 [] s = "7" -> Ok(IntV(7))
                 [] s = "-3" -> Ok(IntV(-3))
                 [] s = " 5 " -> Ok(IntV(5))
                 [] OTHER -> Raise("ValueError", "int")

\* what float(text) gives for the input lines of the model
FloatOfStr(s) == CASE s = "1" -> Ok(FloatV(1 * Scale))
                   [] s = "7" -> Ok(FloatV(7 * Scale))
                   [] s = "-3" -> Ok(FloatV((-3) * Scale))
                   [] s = " 5 " -> Ok(FloatV(5 * Scale))
                   [] s = "2.5" -> Ok(FloatV(5))
                   [] OTHER -> Raise("ValueError", "float")

\* Python int(x): bool and int unchanged in value, float truncated, str parsed
PyInt(x) == CASE x.t = "float" -> Ok(IntV(TruncDiv(x.v, Scale)))
              [] x.t = "str" -> IntOfStr(x.v)
              [] OTHER -> Ok(IntV(AsInt(x)))

\* ------------------------------------------------------------------------
\* Operators of eval_expr
\* ------------------------------------------------------------------------
\* Python a // b and a % b on ints, b # 0: the quotient is rounded toward
\* minus infinity and the remainder has the sign of b.
PyFloorDiv(a, b) == IF b > 0 THEN a \div b ELSE (-a) \div (-b)

\* "s" * n
RECURSIVE StrRepeat(_, _)
StrRepeat(s, n) == IF n <= 0 THEN "" ELSE s \o StrRepeat(s, n - 1)

\* l + r, l - r, l * r, l / r of two Python numbers
Arith(op, l, r) ==
    LET isf == l.t = "float" \/ r.t = "float"
        a == Scaled(l)
        b == Scaled(r)
    IN CASE op = "PLUS" -> IF isf THEN FloatV(a + b) ELSE IntV(AsInt(l) + AsInt(r))
         [] op = "MINUS" -> IF isf THEN FloatV(a - b) ELSE IntV(AsInt(l) - AsInt(r))
         [] op = "MUL" -> IF isf THEN FloatV(RoundDiv(a * b, Scale)) ELSE IntV(AsInt(l) * AsInt(r))
         [] op = "DIVIDE" -> FloatV(RoundDiv(a * Scale, b))

\* int(l) // int(r) and int(l) % int(r)
IntDivMod(op, l, r) ==
    LET a == PyInt(l)
        b == PyInt(r)
    IN IF ~a.ok THEN a
       ELSE IF ~b.ok THEN b
       ELSE IF b.val.v = 0 THEN Raise("ZeroDivisionError", "integer division or modulo by zero")
       ELSE IF op = "DIV" THEN Ok(IntV(PyFloorDiv(a.val.v, b.val.v)))
       ELSE Ok(IntV(a.val.v - b.val.v * PyFloorDiv(a.val.v, b.val.v)))

\* a check made for / alone
ZeroDivisor_DivideOnly(op, r) == op = "DIVIDE" /\ PyEq(r, IntV(0))

\* if r == 0: in the branches of /, DIV, MOD and %
ZeroDivisor(op, r) == PyEq(r, IntV(0))

\* eval_expr, BinOp, once both operands are values
BinOpApply(op, l, r) ==
    CASE op = "PLUS" ->
            IF IsNum(l) /\ IsNum(r) THEN Ok(Arith(op, l, r))
            ELSE IF l.t = "str" /\ r.t = "str" THEN Ok(StrV(l.v \o r.v))
            ELSE Raise("TypeError", "+")
      [] op = "MINUS" ->
            IF IsNum(l) /\ IsNum(r) THEN Ok(Arith(op, l, r)) ELSE Raise("TypeError", "-")
      [] op = "MUL" ->
            IF IsNum(l) /\ IsNum(r) THEN Ok(Arith(op, l, r))
            ELSE IF l.t = "str" /\ r.t \in {"int", "bool"} THEN Ok(StrV(StrRepeat(l.v, AsInt(r))))
            ELSE IF r.t = "str" /\ l.t \in {"int", "bool"} THEN Ok(StrV(StrRepeat(r.v, AsInt(l))))
            ELSE Raise("TypeError", "*")
      [] op = "DIVIDE" ->
            IF ZeroDivisor(op, r) THEN RuntimeErrorGlossa("Διαίρεση με το μηδέν")
            ELSE IF IsNum(l) /\ IsNum(r) THEN Ok(Arith(op, l, r))
            ELSE Raise("TypeError", "/")
      [] op = "DIV" ->
            IF ZeroDivisor(op, r) THEN RuntimeErrorGlossa("Διαίρεση με το μηδέν")
            ELSE IntDivMod("DIV", l, r)
      [] op \in {"MOD", "MOD_SYM"} ->
            IF ZeroDivisor(op, r) THEN RuntimeErrorGlossa("Υπόλοιπο με το μηδέν")
            ELSE IntDivMod("MOD", l, r)
      [] op = "EQ" -> Ok(BoolV(PyEq(l, r)))
      [] op = "NE" -> Ok(BoolV(~PyEq(l, r)))
      [] op \in {"LT", "LE", "GT", "GE"} -> PyOrder(op, l, r)
      [] op = "AND" -> Ok(BoolV(Truthy(l) /\ Truthy(r)))
      [] op = "OR" -> Ok(BoolV(Truthy(l) \/ Truthy(r)))
      [] OTHER -> RuntimeErrorGlossa("Άγνωστος τελεστής")

\* eval_expr, UnOp, once the operand is a value
UnOpApply(op, x) ==
    CASE op = "MINUS" ->
            IF x.t = "float" THEN Ok(FloatV(-x.v))
            ELSE IF IsNum(x) THEN Ok(IntV(-AsInt(x)))
            ELSE Raise("TypeError", "unary -")
      [] op = "PLUS" ->
            IF x.t = "float" THEN Ok(x)
            ELSE IF IsNum(x) THEN Ok(IntV(AsInt(x)))
            ELSE Raise("TypeError", "unary +")
      [] op = "NOT" -> Ok(BoolV(~Truthy(x)))
      [] OTHER -> RuntimeErrorGlossa("Άγνωστος μονοσήμαντος τελεστής")

\* _coerce_index
CoerceIndex(x) ==
    CASE x.t = "bool" -> Ok(IntV(AsInt(x)))
      [] x.t = "float" ->
            IF x.v % Scale = 0 THEN Ok(IntV(x.v \div Scale))
            ELSE RuntimeErrorGlossa("Ο δείκτης πίνακα πρέπει να είναι ακέραιος")
      [] x.t = "int" -> Ok(x)
      [] OTHER -> RuntimeErrorGlossa("Ο δείκτης πίνακα πρέπει να είναι ακέραιος")

\* _convert_input
ConvertInput(raw, base_type) ==
    CASE base_type = "TYPE_INT" -> IntOfStr(raw)
      [] base_type = "TYPE_REAL" -> FloatOfStr(raw)
      [] base_type = "TYPE_CHAR" -> Ok(StrV(raw))
      [] base_type = "TYPE_BOOL" -> Ok(BoolV(raw \in {"ΑΛΗΘΗΣ", "TRUE", "1", " true "}))
      [] OTHER -> Ok(StrV(raw))

\* to_text inside exec_statement, Write
ToText(x) ==
    LET \* str(x) of a float
        FloatStr(n) ==
            (IF n < 0 THEN "-" ELSE "") \o ToString(Abs(n) \div Scale) \o "."
                \o (IF Abs(n) % Scale = 0 THEN "0" ELSE "5")
    IN
    CASE x.t = "bool" -> IF x.v THEN "ΑΛΗΘΗΣ" ELSE "ΨΕΥΔΗΣ"
      [] x.t = "int" -> ToString(x.v)
      [] x.t = "float" -> FloatStr(x.v)
      [] OTHER -> x.v

\* " ".join(parts)
RECURSIVE JoinText(_)
JoinText(parts) ==
    IF parts = <<>> THEN ""
    ELSE IF Len(parts) = 1 THEN ToText(parts[1])
    ELSE ToText(parts[1]) \o " " \o JoinText(Tail(parts))

\* ------------------------------------------------------------------------
\* Env
\* ------------------------------------------------------------------------
\* A VarInfo is [base, dims]; dims = <<>> stands for None (a scalar).
Scalar(base) == [base |-> base, dims |-> <<>>]
Array(base, dims) == [base |-> base, dims |-> dims]

\* defaults that are not the zero of the integer type
Env_default_value_Ones(tp) ==
    CASE tp = "TYPE_INT" -> IntV(1)
      [] tp = "TYPE_REAL" -> FloatV(0)
      [] tp = "TYPE_CHAR" -> StrV("")
      [] tp = "TYPE_BOOL" -> BoolV(FALSE)

Env_default_value(tp) ==
    CASE tp = "TYPE_INT" -> IntV(0)
      [] tp = "TYPE_REAL" -> FloatV(0)
      [] tp = "TYPE_CHAR" -> StrV("")
      [] tp = "TYPE_BOOL" -> BoolV(FALSE)

\* Python lists are 0-based: a 1-D array is a function on 0..n-1, a 2-D array a
\* function on 0..rows-1 of functions on 0..cols-1.
Env_make_array(dims, tp) ==
    IF Len(dims) = 1
    THEN [i \in 0..(dims[1] - 1) |-> Env_default_value(tp)]
    ELSE [i \in 0..(dims[1] - 1) |-> [j \in 0..(dims[2] - 1) |-> Env_default_value(tp)]]

\* Env.__init__
Env_init(var_types, parent) ==
    [types |-> var_types,
     values |-> [name \in DOMAIN var_types |->
                    IF var_types[name].dims = <<>>
                    THEN Env_default_value(var_types[name].base)
                    ELSE Env_make_array(var_types[name].dims, var_types[name].base)],
     parent |-> parent]

\* a coercion that takes a bool for an int, as isinstance(True, int) holds
Env_coerce_BoolAsInt(tp, value) ==
    CASE tp = "TYPE_INT" ->
            IF value.t = "float" THEN Ok(IntV(TruncDiv(value.v, Scale)))
            ELSE IF value.t \in {"int", "bool"} THEN Ok(value)
            ELSE RuntimeErrorGlossa("Αναμενόταν ακέραιος")
      [] tp = "TYPE_REAL" ->
            IF value.t \in {"bool", "int"} THEN Ok(FloatV(AsInt(value) * Scale))
            ELSE IF value.t = "float" THEN Ok(value)
            ELSE RuntimeErrorGlossa("Αναμενόταν πραγματικός")
      [] tp = "TYPE_CHAR" ->
            IF value.t = "str" THEN Ok(value)
            ELSE RuntimeErrorGlossa("Αναμενόταν αλφαριθμητικό")
      [] tp = "TYPE_BOOL" ->
            IF value.t = "bool" THEN Ok(value)
            ELSE RuntimeErrorGlossa("Αναμενόταν λογική τιμή")

\* a coercion that stores the truth value of a number in a boolean target
Env_coerce_Truthy(tp, value) ==
    CASE tp = "TYPE_INT" ->
            IF value.t = "bool" THEN Ok(IntV(AsInt(value)))
            ELSE IF value.t = "float" THEN Ok(IntV(TruncDiv(value.v, Scale)))
            ELSE IF value.t = "int" THEN Ok(value)
            ELSE RuntimeErrorGlossa("Αναμενόταν ακέραιος")
      [] tp = "TYPE_REAL" ->
            IF value.t \in {"bool", "int"} THEN Ok(FloatV(AsInt(value) * Scale))
            ELSE IF value.t = "float" THEN Ok(value)
            ELSE RuntimeErrorGlossa("Αναμενόταν πραγματικός")
      [] tp = "TYPE_CHAR" ->
            IF value.t = "str" THEN Ok(value)
            ELSE RuntimeErrorGlossa("Αναμενόταν αλφαριθμητικό")
      [] tp = "TYPE_BOOL" ->
            IF value.t = "bool" THEN Ok(value)
            ELSE IF value.t \in {"int", "float"} THEN Ok(BoolV(value.v # 0))
            ELSE RuntimeErrorGlossa("Αναμενόταν λογική τιμή")

\* Env._coerce
Env_coerce(tp, value) ==
    CASE tp = "TYPE_INT" ->
            IF value.t = "bool" THEN Ok(IntV(AsInt(value)))
            ELSE IF value.t = "float" THEN Ok(IntV(TruncDiv(value.v, Scale)))
            ELSE IF value.t = "int" THEN Ok(value)
            ELSE RuntimeErrorGlossa("Αναμενόταν ακέραιος")
      [] tp = "TYPE_REAL" ->
            IF value.t \in {"bool", "int"} THEN Ok(FloatV(AsInt(value) * Scale))
            ELSE IF value.t = "float" THEN Ok(value)
            ELSE RuntimeErrorGlossa("Αναμενόταν πραγματικός")
      [] tp = "TYPE_CHAR" ->
            IF value.t = "str" THEN Ok(value)
            ELSE RuntimeErrorGlossa("Αναμενόταν αλφαριθμητικό")
      [] tp = "TYPE_BOOL" ->
            IF value.t = "bool" THEN Ok(value)
            ELSE RuntimeErrorGlossa("Αναμενόταν λογική τιμή")

\* a lookup in which the outermost declaration of the name wins
RECURSIVE Env_find_owner_Outermost(_, _, _)
Env_find_owner_Outermost(es, e, name) ==
    LET outer == IF es[e].parent # 0 THEN Env_find_owner_Outermost(es, es[e].parent, name) ELSE 0
    IN IF outer # 0 THEN outer
       ELSE IF name \in DOMAIN es[e].types THEN e
       ELSE 0

\* Env._find_owner: the index of the Env that declares name, 0 for None
RECURSIVE Env_find_owner(_, _, _)
Env_find_owner(es, e, name) ==
    IF name \in DOMAIN es[e].types THEN e
    ELSE IF es[e].parent # 0 THEN Env_find_owner(es, es[e].parent, name)
    ELSE 0

\* Env.get_type
Env_get_type(es, e, name) ==
    LET owner == Env_find_owner(es, e, name)
    IN IF owner = 0 THEN RuntimeErrorGlossa("Άγνωστη μεταβλητή")
       ELSE Ok(es[owner].types[name])

\* index resolution that counts the cells from the far end of each dimension
Env_resolve_indices_Mirrored(es, e, name, indices) ==
    LET owner == Env_find_owner(es, e, name)
        info == es[owner].types[name]
    IN IF owner = 0 THEN RuntimeErrorGlossa("Άγνωστη μεταβλητή")
       ELSE IF info.dims = <<>> THEN RuntimeErrorGlossa("δεν είναι πίνακας")
       ELSE IF Len(indices) # Len(info.dims) THEN RuntimeErrorGlossa("αναμένει δείκτες")
       ELSE IF \E d \in 1..Len(indices) : indices[d] < 1 \/ indices[d] > info.dims[d]
            THEN RuntimeErrorGlossa("εκτός ορίων")
       ELSE Ok([owner |-> owner,
                zero_based |-> [d \in 1..Len(indices) |-> info.dims[d] - indices[d]],
                base |-> info.base])

\* Env._resolve_indices: the owner, the 0-based indices and the base type
Env_resolve_indices(es, e, name, indices) ==
    LET owner == Env_find_owner(es, e, name)
        info == es[owner].types[name]
    IN IF owner = 0 THEN RuntimeErrorGlossa("Άγνωστη μεταβλητή")
       ELSE IF info.dims = <<>> THEN RuntimeErrorGlossa("δεν είναι πίνακας")
       ELSE IF Len(indices) # Len(info.dims) THEN RuntimeErrorGlossa("αναμένει δείκτες")
       ELSE IF \E d \in 1..Len(indices) : indices[d] < 1 \/ indices[d] > info.dims[d]
            THEN RuntimeErrorGlossa("εκτός ορίων")
       ELSE Ok([owner |-> owner,
                zero_based |-> [d \in 1..Len(indices) |-> indices[d] - 1],
                base |-> info.base])

\* Env.set; indices = <<>> stands for None.  Gives the Env objects after it.
Env_set(es, e, name, val, indices) ==
    LET owner == Env_find_owner(es, e, name)
        info == es[owner].types[name]
        r == Env_resolve_indices(es, e, name, indices)
        c == Env_coerce(info.base, val)
        z == r.val.zero_based
    IN IF owner = 0 THEN RuntimeErrorGlossa("Άγνωστη μεταβλητή")
       ELSE IF indices = <<>>
            THEN IF info.dims # <<>> THEN RuntimeErrorGlossa("είναι πίνακας - απαιτούνται δείκτες")
                 ELSE IF ~c.ok THEN c
                 ELSE Ok([es EXCEPT ![owner].values[name] = c.val])
       ELSE IF ~r.ok THEN r
       ELSE IF ~c.ok THEN c
       ELSE IF Len(z) = 1
            THEN Ok([es EXCEPT ![owner].values[name][z[1]] = c.val])
            ELSE Ok([es EXCEPT ![owner].values[name][z[1]][z[2]] = c.val])

\* Env.get; indices = <<>> stands for None
Env_get(es, e, name, indices) ==
    LET owner == Env_find_owner(es, e, name)
        info == es[owner].types[name]
        r == Env_resolve_indices(es, e, name, indices)
        z == r.val.zero_based
    IN IF owner = 0 THEN RuntimeErrorGlossa("Άγνωστη μεταβλητή")
       ELSE IF indices = <<>>
            THEN IF info.dims # <<>> THEN RuntimeErrorGlossa("είναι πίνακας - δώσε δείκτες")
                 ELSE Ok(es[owner].values[name])
       ELSE IF ~r.ok THEN r
       ELSE IF Len(z) = 1 THEN Ok(es[owner].values[name][z[1]])
       ELSE Ok(es[owner].values[name][z[1]][z[2]])

\* ------------------------------------------------------------------------
\* AST nodes (the dataclasses of the parser).  An absent optional body or
\* index list (None) is the empty sequence: the executor treats both alike,
\* and the parser never builds an empty index list.
\* ------------------------------------------------------------------------
Number(value) == [node |-> "Number", value |-> value]
String(value) == [node |-> "String", value |-> StrV(value)]
Bool(value) == [node |-> "Bool", value |-> BoolV(value)]
Var(name) == [node |-> "Var", name |-> name]
ArrayRef(name, indices) == [node |-> "ArrayRef", name |-> name, indices |-> indices]
FuncCall(name, args) == [node |-> "FuncCall", name |-> name, args |-> args]
UnOp(op, expr) == [node |-> "UnOp", op |-> op, expr |-> expr]
BinOp(op, left, right) == [node |-> "BinOp", op |-> op, left |-> left, right |-> right]
\* For.step when the source has no STEP part
NoStep == [node |-> "None"]

Assign(line, name, indices, expr) ==
    [node |-> "Assign", line |-> line, name |-> name, indices |-> indices, expr |-> expr]
Write(line, exprs) == [node |-> "Write", line |-> line, exprs |-> exprs]
Read(line, targets) == [node |-> "Read", line |-> line, targets |-> targets]
ProcCall(line, name, args) == [node |-> "ProcCall", line |-> line, name |-> name, args |-> args]
Return(line, expr) == [node |-> "Return", line |-> line, expr |-> expr]
If(line, cond, then_body, else_body) ==
    [node |-> "If", line |-> line, cond |-> cond, then_body |-> then_body, else_body |-> else_body]
While(line, cond, body) == [node |-> "While", line |-> line, cond |-> cond, body |-> body]
Repeat(line, body, cond) == [node |-> "Repeat", line |-> line, body |-> body, cond |-> cond]
Select(line, expr, cases, default) ==
    [node |-> "Select", line |-> line, expr |-> expr, cases |-> cases, default |-> default]
For(line, var, start, end, step, body) ==
    [node |-> "For", line |-> line, var |-> var, start |-> start, end |-> end,
     step |-> step, body |-> body]

Parameter(name, type) == [name |-> name, type |-> type]
ProcedureDef(params, locals, statements) ==
    [params |-> params, locals |-> locals, statements |-> statements]
FunctionDef(params, return_type, locals, statements) ==
    [params |-> params, return_type |-> return_type, locals |-> locals,
     statements |-> statements]
Program(var_decls, statements, procedures, functions, inputs) ==
    [var_decls |-> var_decls, statements |-> statements, procedures |-> procedures,
     functions |-> functions, inputs |-> inputs]

\* an empty declaration table or routine table
None0 == [n \in {} |-> 0]

\* What the parser builds for a numeric literal with an optional sign: the
\* scanner has no negative literals, "-3" is UnOp(MINUS, Number(3)).
IntLit(n) == IF n < 0 THEN UnOp("MINUS", Number(IntV(-n))) ELSE Number(IntV(n))
\* q units of 1/Scale, written as an integer literal when it is one
NumLit(q) ==
    LET lit == IF Abs(q) % Scale = 0 THEN Number(IntV(Abs(q) \div Scale)) ELSE Number(FloatV(Abs(q)))
    IN IF q < 0 THEN UnOp("MINUS", lit) ELSE lit

\* ------------------------------------------------------------------------
\* The programs the model runs.  A source is [p, ty, a, b, c]: the program
\* p with the literals a, b, c (and the type or operator ty) filled in.
\* ------------------------------------------------------------------------
Source(p, ty, a, b, c) == [p |-> p, ty |-> ty, a |-> a, b |-> b, c |-> c]

\*   x <- a ty b ; WRITE x                         (ty is DIV, MOD or MOD_SYM)
ProgDivMod(s) ==
    Program([x |-> Scalar("TYPE_INT")],
            << Assign(1, "x", <<>>, BinOp(s.ty, IntLit(s.a), IntLit(s.b))),
               Write(2, <<Var("x")>>) >>,
            None0, None0, <<>>)

\*   FOR i FROM a TO b STEP c: cnt <- cnt + 1 ; WRITE cnt    (i declared ty)
ProgFor(s) ==
    Program([i |-> Scalar(s.ty), cnt |-> Scalar("TYPE_INT")],
            << For(1, "i", NumLit(s.a), NumLit(s.b), NumLit(s.c),
                   << Assign(2, "cnt", <<>>, BinOp("PLUS", Var("cnt"), Number(IntV(1)))) >>),
               Write(3, <<Var("cnt")>>) >>,
            None0, None0, <<>>)

\*   q <- f(a) ; WRITE q ; r <- g(0) ; WRITE "unreached"
\*   f(n) returns i + 0.5 from inside IF inside FOR when i = n, else 0 after the loop
\*   g(n) returns only when n > 0
ProgRet(s) ==
    Program([q |-> Scalar("TYPE_REAL"), r |-> Scalar("TYPE_INT")],
            << Assign(1, "q", <<>>, FuncCall("f", <<IntLit(s.a)>>)),
               Write(2, <<Var("q")>>),
               Assign(3, "r", <<>>, FuncCall("g", <<IntLit(0)>>)),
               Write(4, <<String("unreached")>>) >>,
            None0,
            [f |-> FunctionDef(<<Parameter("n", "TYPE_INT")>>, "TYPE_INT",
                     [i |-> Scalar("TYPE_INT")],
                     << For(10, "i", IntLit(1), IntLit(3), NoStep,
                            << If(11, BinOp("EQ", Var("i"), Var("n")),
                                  << Return(12, BinOp("PLUS", Var("i"), Number(FloatV(1)))) >>,
                                  <<>>),
                               Write(13, <<String("iter")>>) >>),
                        Write(14, <<String("after loop")>>),
                        Return(15, IntLit(0)) >>),
             g |-> FunctionDef(<<Parameter("n", "TYPE_INT")>>, "TYPE_INT", None0,
                     << If(20, BinOp("GT", Var("n"), IntLit(0)),
                           << Return(21, IntLit(1)) >>, <<>>) >>)],
            <<>>)

\*   x <- 1 ; CALL P(7) ; WRITE x, y
\*   P(x) with local y:  y <- 5 ; CALL Q() ; WRITE x, y
\*   Q() declares nothing:  WRITE x ; x <- 9 ; y <- 8
ProgScope(s) ==
    Program([x |-> Scalar("TYPE_INT"), y |-> Scalar("TYPE_INT")],
            << Assign(1, "x", <<>>, IntLit(1)),
               ProcCall(2, "P", <<IntLit(7)>>),
               Write(3, <<Var("x"), Var("y")>>) >>,
            [P |-> ProcedureDef(<<Parameter("x", "TYPE_INT")>>, [y |-> Scalar("TYPE_INT")],
                     << Assign(10, "y", <<>>, IntLit(5)),
                        ProcCall(11, "Q", <<>>),
                        Write(12, <<Var("x"), Var("y")>>) >>),
             Q |-> ProcedureDef(<<>>, None0,
                     << Write(20, <<Var("x")>>),
                        Assign(21, "x", <<>>, IntLit(9)),
                        Assign(22, "y", <<>>, IntLit(8)) >>)],
            None0, <<>>)

\*   r <- F(a) ; WRITE r
\*   F(n) with locals t, A[2]:  WRITE t, A[1] ; t <- n + 1 ; A[1] <- n + 1 ;
\*                              IF n <= 0 THEN RETURN 0 ; RETURN n + F(n - 1)
ProgRec(s) ==
    Program([r |-> Scalar("TYPE_INT")],
            << Assign(1, "r", <<>>, FuncCall("F", <<IntLit(s.a)>>)),
               Write(2, <<Var("r")>>) >>,
            None0,
            [F |-> FunctionDef(<<Parameter("n", "TYPE_INT")>>, "TYPE_INT",
                     [t |-> Scalar("TYPE_INT"), A |-> Array("TYPE_INT", <<2>>)],
                     << Write(10, <<Var("t"), ArrayRef("A", <<IntLit(1)>>)>>),
                        Assign(11, "t", <<>>, BinOp("PLUS", Var("n"), IntLit(1))),
                        Assign(12, "A", <<IntLit(1)>>, BinOp("PLUS", Var("n"), IntLit(1))),
                        If(13, BinOp("LE", Var("n"), IntLit(0)), << Return(14, IntLit(0)) >>, <<>>),
                        Return(15, BinOp("PLUS", Var("n"),
                                         FuncCall("F", <<BinOp("MINUS", Var("n"), IntLit(1))>>))) >>)],
            <<>>)

\*   A[1] <- 10 ; M[2,1] <- 3 ; A[a] <- 5 ; x <- A[b] ; M[a,b] <- 1 ; x <- M[b,a] ;
\*   then, by c: 1: A[1,1] <- 0   2: x <- M[1]   3: x <- A   4: x[1] <- 0   else nothing
ProgArray(s) ==
    Program([A |-> Array("TYPE_INT", <<2>>), M |-> Array("TYPE_REAL", <<2, 2>>),
             x |-> Scalar("TYPE_INT")],
            << Assign(1, "A", <<IntLit(1)>>, IntLit(10)),
               Assign(2, "M", <<IntLit(2), IntLit(1)>>, IntLit(3)),
               Assign(3, "A", <<IntLit(s.a)>>, IntLit(5)),
               Assign(4, "x", <<>>, ArrayRef("A", <<IntLit(s.b)>>)),
               Assign(5, "M", <<IntLit(s.a), IntLit(s.b)>>, IntLit(1)),
               Assign(6, "x", <<>>, ArrayRef("M", <<IntLit(s.b), IntLit(s.a)>>)) >>
            \o (CASE s.c = 1 -> << Assign(7, "A", <<IntLit(1), IntLit(1)>>, IntLit(0)) >>
                  [] s.c = 2 -> << Assign(7, "x", <<>>, ArrayRef("M", <<IntLit(1)>>)) >>
                  [] s.c = 3 -> << Assign(7, "x", <<>>, Var("A")) >>
                  [] s.c = 4 -> << Assign(7, "x", <<IntLit(1)>>, IntLit(0)) >>
                  [] OTHER -> <<>>)
            \o << Write(8, <<Var("x")>>) >>,
            None0, None0, <<>>)

\*   i <- 2.5 ; r <- 3 ; i <- TRUE ; r <- FALSE ; READ i, r, s, b ; A[1] <- 1.5 ;
\*   CALL T(2.5, 1) ; FOR r FROM 0 TO 1 ... ; WHILE i > 5 ... ; REPEAT ... UNTIL i <= 5 ;
\*   SELECT i ... ; s <- 1
ProgTypes(s) ==
    Program([i |-> Scalar("TYPE_INT"), r |-> Scalar("TYPE_REAL"), s |-> Scalar("TYPE_CHAR"),
             b |-> Scalar("TYPE_BOOL"), A |-> Array("TYPE_INT", <<2>>)],
            << Assign(1, "i", <<>>, Number(FloatV(5))),
               Assign(2, "r", <<>>, IntLit(3)),
               Assign(3, "i", <<>>, Bool(TRUE)),
               Assign(4, "r", <<>>, Bool(FALSE)),
               Read(5, <<Var("i"), Var("r"), Var("s"), Var("b"), ArrayRef("A", <<IntLit(2)>>)>>),
               Assign(6, "A", <<IntLit(1)>>, Number(FloatV(3))),
               ProcCall(7, "T", <<Number(FloatV(5)), IntLit(1)>>),
               For(8, "r", IntLit(0), IntLit(1), NoStep, << Write(9, <<Var("r")>>) >>),
               While(10, BinOp("GT", Var("i"), IntLit(5)),
                     << Assign(11, "i", <<>>, BinOp("MINUS", Var("i"), Number(FloatV(1)))) >>),
               Repeat(12, << Assign(13, "i", <<>>, BinOp("MINUS", Var("i"), IntLit(1))) >>,
                      BinOp("LE", Var("i"), IntLit(5))),
               Select(14, Var("i"),
                      << [values |-> <<IntLit(1), IntLit(2)>>, body |-> << Write(15, <<String("low")>>) >>],
                         [values |-> <<IntLit(4)>>, body |-> << Write(16, <<String("four")>>) >>] >>,
                      << Write(17, <<UnOp("NOT", Var("b"))>>) >>),
               Assign(18, "s", <<>>, IntLit(1)),
               Write(19, <<String("unreached")>>) >>,
            [T |-> ProcedureDef(<<Parameter("p", "TYPE_INT"), Parameter("q", "TYPE_REAL")>>, None0,
                     << Write(30, <<Var("p"), Var("q")>>) >>)],
            None0,
            <<"7", "2.5", "x", "TRUE", "-3">>)

\*   c = 0:  r <- F(a) ; WRITE r          c = 1:  CALL P(a) ; WRITE "m"
\*   F(n):  CALL P(n) ; WRITE "f" ; RETURN 1
\*   P(n):  WHILE n > 0: (IF n > 1 THEN RETURN 5 ; n <- n - 1) ; WRITE "p"
ProgRetProc(s) ==
    Program([r |-> Scalar("TYPE_INT")],
            IF s.c = 0
            THEN << Assign(1, "r", <<>>, FuncCall("F", <<IntLit(s.a)>>)),
                    Write(2, <<Var("r")>>) >>
            ELSE << ProcCall(1, "P", <<IntLit(s.a)>>),
                    Write(2, <<String("m")>>) >>,
            [P |-> ProcedureDef(<<Parameter("n", "TYPE_INT")>>, None0,
                     << While(20, BinOp("GT", Var("n"), IntLit(0)),
                              << If(21, BinOp("GT", Var("n"), IntLit(1)),
                                    << Return(22, IntLit(5)) >>, <<>>),
                                 Assign(23, "n", <<>>, BinOp("MINUS", Var("n"), IntLit(1))) >>),
                        Write(24, <<String("p")>>) >>)],
            [F |-> FunctionDef(<<Parameter("n", "TYPE_INT")>>, "TYPE_INT", None0,
                     << ProcCall(10, "P", <<Var("n")>>),
                        Write(11, <<String("f")>>),
                        Return(12, IntLit(1)) >>)],
            <<>>)

\*   WRITE "a" ; FOR i FROM 1 TO 2: (IF i = a THEN RETURN i ; WRITE "b") ; WRITE "end"
ProgTopRet(s) ==
    Program([i |-> Scalar("TYPE_INT")],
            << Write(1, <<String("a")>>),
               For(2, "i", IntLit(1), IntLit(2), NoStep,
                   << If(3, BinOp("EQ", Var("i"), IntLit(s.a)),
                         << Return(4, Var("i")) >>, <<>>),
                      Write(5, <<String("b")>>) >>),
               Write(6, <<String("end")>>) >>,
            None0, None0, <<>>)

\*   FOR i FROM 1 TO 3: (CALL P(i) ; WRITE "next") ; WRITE "end"
\*   P(n), local x:  x <- F(n) ; WRITE "p"
\*   F(n):  IF n = a THEN RETURN 1 DIV 0 ; RETURN n
ProgHalt(s) ==
    Program([i |-> Scalar("TYPE_INT")],
            << For(1, "i", IntLit(1), IntLit(3), NoStep,
                   << ProcCall(2, "P", <<Var("i")>>),
                      Write(3, <<String("next")>>) >>),
               Write(4, <<String("end")>>) >>,
            [P |-> ProcedureDef(<<Parameter("n", "TYPE_INT")>>, [x |-> Scalar("TYPE_INT")],
                     << Assign(10, "x", <<>>, FuncCall("F", <<Var("n")>>)),
                        Write(11, <<String("p")>>) >>)],
            [F |-> FunctionDef(<<Parameter("n", "TYPE_INT")>>, "TYPE_INT", None0,
                     << If(20, BinOp("EQ", Var("n"), IntLit(s.a)),
                           << Return(21, BinOp("DIV", IntLit(1), IntLit(0))) >>, <<>>),
                        Return(22, Var("n")) >>)],
            <<>>)

\* the literal number a of the programs "coerce": 3, 2.5, -2.5, "a", ΑΛΗΘΗΣ, ΨΕΥΔΗΣ
CoerceLit(a) ==
    CASE a = 0 -> IntLit(3)
      [] a = 1 -> NumLit(5)
      [] a = 2 -> NumLit(-5)
      [] a = 3 -> String("a")
      [] a = 4 -> Bool(TRUE)
      [] OTHER -> Bool(FALSE)

\* t declared ty.
\*   c = 0:  t <- init ; t <- lit ; WRITE t
\*   c = 1:  t <- init ; CALL P(lit) ; WRITE t        P(x: ty):  WRITE x
\*   c = 2:  t <- init ; t <- F() ; WRITE t           F(): ty:  RETURN lit
ProgCoerce(s) ==
    LET \* a literal of the declared type ty, not its default
        CoerceInit(ty) ==
            CASE ty = "TYPE_INT" -> IntLit(7)
              [] ty = "TYPE_REAL" -> NumLit(15)
              [] ty = "TYPE_CHAR" -> String("z")
              [] OTHER -> Bool(TRUE)
    IN
    Program([t |-> Scalar(s.ty)],
            << Assign(1, "t", <<>>, CoerceInit(s.ty)),
               IF s.c = 0 THEN Assign(2, "t", <<>>, CoerceLit(s.a))
               ELSE IF s.c = 1 THEN ProcCall(2, "P", <<CoerceLit(s.a)>>)
               ELSE Assign(2, "t", <<>>, FuncCall("F", <<>>)),
               Write(3, <<Var("t")>>) >>,
            [P |-> ProcedureDef(<<Parameter("x", s.ty)>>, None0, <<Write(10, <<Var("x")>>)>>)],
            [F |-> FunctionDef(<<>>, s.ty, None0, <<Return(20, CoerceLit(s.a))>>)],
            <<>>)

\* the first b of the arguments g(1), g(2), g(3)
ArityArgs(b) == [j \in 1..b |-> FuncCall("g", <<IntLit(j)>>)]

\*   c = 0:  CALL P(args) ; WRITE "end"          c = 1:  r <- F(args) ; WRITE r
\*   P(u, v):  WRITE u, v           F(u, v):  WRITE u, v ; RETURN 10 * u + v
\*   g(n):  WRITE n ; RETURN n
ProgArity(s) ==
    Program([r |-> Scalar("TYPE_INT")],
            IF s.c = 0
            THEN << ProcCall(1, "P", ArityArgs(s.b)), Write(2, <<String("end")>>) >>
            ELSE << Assign(1, "r", <<>>, FuncCall("F", ArityArgs(s.b))), Write(2, <<Var("r")>>) >>,
            [P |-> ProcedureDef(<<Parameter("u", "TYPE_INT"), Parameter("v", "TYPE_INT")>>, None0,
                     << Write(10, <<Var("u"), Var("v")>>) >>)],
            [F |-> FunctionDef(<<Parameter("u", "TYPE_INT"), Parameter("v", "TYPE_INT")>>,
                               "TYPE_INT", None0,
                     << Write(20, <<Var("u"), Var("v")>>),
                        Return(21, BinOp("PLUS", BinOp("MUL", IntLit(10), Var("u")), Var("v"))) >>),
             g |-> FunctionDef(<<Parameter("n", "TYPE_INT")>>, "TYPE_INT", None0,
                     << Write(30, <<Var("n")>>),
                        Return(31, Var("n")) >>)],
            <<>>)

\*   READ x ; WRITE x ; READ y, A[1] ; WRITE y, A[1]
\* with the first a of the input lines 1, 7, -3
ProgRead(s) ==
    Program([x |-> Scalar("TYPE_INT"), y |-> Scalar("TYPE_INT"), A |-> Array("TYPE_INT", <<2>>)],
            << Read(1, <<Var("x")>>),
               Write(2, <<Var("x")>>),
               Read(3, <<Var("y"), ArrayRef("A", <<IntLit(1)>>)>>),
               Write(4, <<Var("y"), ArrayRef("A", <<IntLit(1)>>)>>) >>,
            None0, None0,
            SubSeq(<<"1", "7", "-3">>, 1, s.a))

\* t declared ty (integer or real):  t <- 1 ; READ t ; WRITE t
\* with the one input line number a
ProgReadNum(s) ==
    Program([t |-> Scalar(s.ty)],
            << Assign(1, "t", <<>>, IntLit(1)),
               Read(2, <<Var("t")>>),
               Write(3, <<Var("t")>>) >>,
            None0, None0,
            << <<"7", "x", "2.5">>[s.a] >>)

\* q declared boolean:  q <- lit a  ty  lit b ; WRITE q    (ty is LT, LE, GT or GE)
ProgOrder(s) ==
    Program([q |-> Scalar("TYPE_BOOL")],
            << Assign(1, "q", <<>>, BinOp(s.ty, CoerceLit(s.a), CoerceLit(s.b))),
               Write(2, <<Var("q")>>) >>,
            None0, None0, <<>>)

\* the zero number b of the programs "zero": 0, 0.0, ΨΕΥΔΗΣ
ZeroLit(b) ==
    CASE b = 0 -> Number(IntV(0))
      [] b = 1 -> Number(FloatV(0))
      [] OTHER -> Bool(FALSE)

\* x declared real.
\*   c = 0:  x <- 5 ; x <- a ty zero ; WRITE x
\*   c = 1:  x <- 5 ; WRITE "w", a ty zero ; WRITE x      (ty is DIVIDE, DIV, MOD or MOD_SYM)
ProgZero(s) ==
    Program([x |-> Scalar("TYPE_REAL")],
            << Assign(1, "x", <<>>, IntLit(5)),
               IF s.c = 0
               THEN Assign(2, "x", <<>>, BinOp(s.ty, IntLit(s.a), ZeroLit(s.b)))
               ELSE Write(2, <<String("w"), BinOp(s.ty, IntLit(s.a), ZeroLit(s.b))>>),
               Write(3, <<Var("x")>>) >>,
            None0, None0, <<>>)

\* n declared integer.
\*   n <- a ; REPEAT (WRITE n ; n <- n + 1) UNTIL t(n) ; WRITE "end"
\*   t(m):  WRITE "test" ; RETURN m >= b
ProgRepeat(s) ==
    Program([n |-> Scalar("TYPE_INT")],
            << Assign(1, "n", <<>>, IntLit(s.a)),
               Repeat(2, << Write(3, <<Var("n")>>),
                            Assign(4, "n", <<>>, BinOp("PLUS", Var("n"), IntLit(1))) >>,
                      FuncCall("t", <<Var("n")>>)),
               Write(5, <<String("end")>>) >>,
            None0,
            [t |-> FunctionDef(<<Parameter("m", "TYPE_INT")>>, "TYPE_BOOL", None0,
                     << Write(10, <<String("test")>>),
                        Return(11, BinOp("GE", Var("m"), IntLit(s.b))) >>)],
            <<>>)

\* i, e, d declared integer.
\*   e <- a ; d <- 1 ; FOR i FROM 1 TO E STEP D: (WRITE i ; e <- 0 ; d <- c) ; WRITE "end"
\* where E, D are e, d (b = 0) or the calls lim(e), lim(d) (b = 1) of
\*   lim(m): WRITE "lim" ; RETURN m
ProgForBound(s) ==
    Program([i |-> Scalar("TYPE_INT"), e |-> Scalar("TYPE_INT"), d |-> Scalar("TYPE_INT")],
            << Assign(1, "e", <<>>, IntLit(s.a)),
               Assign(2, "d", <<>>, IntLit(1)),
               For(3, "i", IntLit(1),
                   IF s.b = 0 THEN Var("e") ELSE FuncCall("lim", <<Var("e")>>),
                   IF s.b = 0 THEN Var("d") ELSE FuncCall("lim", <<Var("d")>>),
                   << Write(4, <<Var("i")>>),
                      Assign(5, "e", <<>>, IntLit(0)),
                      Assign(6, "d", <<>>, IntLit(s.c)) >>),
               Write(7, <<String("end")>>) >>,
            None0,
            [lim |-> FunctionDef(<<Parameter("m", "TYPE_INT")>>, "TYPE_INT", None0,
                       << Write(10, <<String("lim")>>),
                          Return(11, Var("m")) >>)],
            <<>>)

\* i declared integer; the step is the zero number c % 3.
\*   c < 3:   FOR i FROM a TO b STEP zero: (WRITE i) ; WRITE "end"
\*   c >= 3:  FOR i FROM a TO b STEP zero: (WRITE i ; i <- i + 1) ; WRITE "end"
ProgForZero(s) ==
    Program([i |-> Scalar("TYPE_INT")],
            << For(1, "i", IntLit(s.a), IntLit(s.b), ZeroLit(s.c % 3),
                   << Write(2, <<Var("i")>>) >>
                   \o (IF s.c >= 3
                       THEN << Assign(3, "i", <<>>, BinOp("PLUS", Var("i"), IntLit(1))) >>
                       ELSE <<>>)),
               Write(4, <<String("end")>>) >>,
            None0, None0, <<>>)

\* the operand a of the programs "logic": ΨΕΥΔΗΣ, ΑΛΗΘΗΣ (c = 0) or 0, 1 (c = 1)

\*   WRITE f(a) ty g(b) ; WRITE "end"
\*   f(m): WRITE "f" ; RETURN m        g(m): WRITE "g" ; RETURN m
\* both of boolean parameter and result (c = 0) or of integer ones (c = 1)
ProgLogic(s) ==
    LET ty == IF s.c = 0 THEN "TYPE_BOOL" ELSE "TYPE_INT"
        LogicLit(a, c) == IF c = 0 THEN Bool(a = 1) ELSE IntLit(a)
        fn(name) == FunctionDef(<<Parameter("m", ty)>>, ty, None0,
                                << Write(10, <<String(name)>>),
                                   Return(11, Var("m")) >>)
    IN Program(None0,
               << Write(1, <<BinOp(s.ty, FuncCall("f", <<LogicLit(s.a, s.c)>>),
                                         FuncCall("g", <<LogicLit(s.b, s.c)>>))>>),
                  Write(2, <<String("end")>>) >>,
               None0,
               [f |-> fn("f"), g |-> fn("g")],
               <<>>)

\* the starter template GlossaIDE.__init__ puts in the editor (α, β, i
\* declared integer; the lines are those of the text):
\*   α <- 5 ; β <- 3 ; WRITE "Άθροισμα:", α + β ; FOR i FROM 1 TO 3: WRITE i
ProgTemplate ==
    Program([n \in {"α", "β", "i"} |-> Scalar("TYPE_INT")],
            << Assign(5, "α", <<>>, IntLit(5)),
               Assign(6, "β", <<>>, IntLit(3)),
               Write(7, <<String("Άθροισμα:"), BinOp("PLUS", Var("α"), Var("β"))>>),
               For(8, "i", IntLit(1), IntLit(3), NoStep,
                   << Write(9, <<Var("i")>>) >>) >>,
            None0, None0, <<>>)

\* ------------------------------------------------------------------------
\* The parser, over the arms of a ΕΠΙΛΕΞΕ and over the top-level items of a
\* program.  An arm is ΠΕΡΙΠΤΩΣΗ ΑΛΛΙΩΣ body (else) or ΠΕΡΙΠΤΩΣΗ values: body;
\* an item is a statement (STMT) or a routine definition (PROC, FUNC).
\* ------------------------------------------------------------------------
CaseArm(values, body) == [else |-> FALSE, values |-> values, body |-> body]
ElseArm(body) == [else |-> TRUE, values |-> <<>>, body |-> body]

\* the while True loop of the SELECT branch of parse_statement, from arm j
\* on, with the cases and the default_body collected so far
RECURSIVE parse_select_arms(_, _, _, _)
parse_select_arms(arms, j, cases, default_body) ==
    IF j > Len(arms) THEN Ok([cases |-> cases, default |-> default_body])
    ELSE IF arms[j].else THEN parse_select_arms(arms, j + 1, cases, arms[j].body)
    ELSE parse_select_arms(arms, j + 1,
                           Append(cases, [values |-> arms[j].values, body |-> arms[j].body]),
                           default_body)

\* the SELECT branch of parse_statement
parse_select(line, expr, arms) ==
    LET r == parse_select_arms(arms, 1, <<>>, <<>>)
    IN IF r.ok THEN Ok(Select(line, expr, r.val.cases, r.val.default)) ELSE r

\* the arms of the ΕΠΙΛΕΞΕ of source s: layout b places the default (none,
\* last, first, in the middle, two defaults), c = 1 swaps the value arms
SelectArms(s) ==
    LET low == CaseArm(<<IntLit(1), IntLit(2)>>, <<Write(3, <<String("low")>>)>>)
        mid == CaseArm(<<IntLit(2), IntLit(4)>>, <<Write(4, <<String("mid")>>)>>)
        v1 == IF s.c = 0 THEN low ELSE mid
        v2 == IF s.c = 0 THEN mid ELSE low
        other == ElseArm(<<Write(5, <<String("other")>>)>>)
        second == ElseArm(<<Write(6, <<String("second")>>)>>)
    IN CASE s.b = 0 -> <<v1, v2>>
         [] s.b = 1 -> <<v1, v2, other>>
         [] s.b = 2 -> <<other, v1, v2>>
         [] s.b = 3 -> <<v1, other, v2>>
         [] OTHER -> <<v1, other, second>>

\*   ΕΠΙΛΕΞΕ sel(a) arms ΤΕΛΟΣ_ΕΠΙΛΟΓΩΝ ; WRITE "end"
\*   sel(n):  WRITE "eval" ; RETURN n
ProgSelect(s) ==
    Program(None0,
            << parse_select(1, FuncCall("sel", <<IntLit(s.a)>>), SelectArms(s)).val,
               Write(7, <<String("end")>>) >>,
            None0,
            [sel |-> FunctionDef(<<Parameter("n", "TYPE_INT")>>, "TYPE_INT", None0,
                       << Write(10, <<String("eval")>>),
                          Return(11, Var("n")) >>)],
            <<>>)

ParseError(what) == Raise("ParseError", what)

\* a check that looks only in the table of procedures
AlreadyDeclared_ProceduresOnly(name, procedures, functions) == name \in DOMAIN procedures

\* proc.name in procedures or proc.name in functions
AlreadyDeclared(name, procedures, functions) ==
    name \in DOMAIN procedures \/ name \in DOMAIN functions

\* the two loops of Parser.parse, from item j on: before ΤΕΛΟΣ_ΠΡΟΓΡΑΜΜΑΤΟΣ
\* (ended = FALSE) a statement is appended to stmts, after it only routine
\* definitions are accepted
RECURSIVE parse_items(_, _, _, _, _, _)
parse_items(items, j, ended, stmts, procedures, functions) ==
    IF j > Len(items)
    THEN Ok([statements |-> stmts, procedures |-> procedures, functions |-> functions])
    ELSE LET it == items[j]
         IN IF it.token = "PROC"
            THEN IF AlreadyDeclared(it.name, procedures, functions)
                 THEN ParseError("Η υπορουτίνα έχει ήδη δηλωθεί")
                 ELSE parse_items(items, j + 1, ended, stmts,
                                  (it.name :> it.def) @@ procedures, functions)
            ELSE IF it.token = "FUNC"
            THEN IF AlreadyDeclared(it.name, procedures, functions)
                 THEN ParseError("Η υπορουτίνα έχει ήδη δηλωθεί")
                 ELSE parse_items(items, j + 1, ended, stmts,
                                  procedures, (it.name :> it.def) @@ functions)
            ELSE IF ended
            THEN ParseError("Απροσδόκητο περιεχόμενο μετά το ΤΕΛΟΣ_ΠΡΟΓΡΑΜΜΑΤΟΣ")
            ELSE parse_items(items, j + 1, ended, Append(stmts, it.def), procedures, functions)

\* Parser.parse of a program with no declarations: the items before and
\* the items after ΤΕΛΟΣ_ΠΡΟΓΡΑΜΜΑΤΟΣ
Parser_parse(before, after) ==
    LET r == parse_items(before, 1, FALSE, <<>>, None0, None0)
    IN IF ~r.ok THEN r
       ELSE LET q == parse_items(after, 1, TRUE, r.val.statements, r.val.procedures,
                                 r.val.functions)
            IN IF ~q.ok THEN q
               ELSE Ok(Program(None0, q.val.statements, q.val.procedures, q.val.functions, <<>>))

\* routine definition number code (1..8) of a source: a procedure (odd) or
\* a function (even), named R or S, before (1..4) or after (5..8)
\* ΤΕΛΟΣ_ΠΡΟΓΡΑΜΜΑΤΟΣ
RoutineItem(code) ==
    LET name == IF ((code - 1) \div 2) % 2 = 0 THEN "R" ELSE "S"
    IN IF code % 2 = 1
       THEN [token |-> "PROC", name |-> name, before |-> code <= 4,
             def |-> ProcedureDef(<<>>, None0, <<Write(10 + code, <<String(name)>>)>>)]
       ELSE [token |-> "FUNC", name |-> name, before |-> code <= 4,
             def |-> FunctionDef(<<>>, "TYPE_INT", None0, <<Return(10 + code, IntLit(code))>>)]

\* the routine definitions of source s, in the order of the text
RoutineItems(s) == <<RoutineItem(s.a), RoutineItem(s.b)>>

\* the items of source s on one side of ΤΕΛΟΣ_ΠΡΟΓΡΑΜΜΑΤΟΣ; the main program
\* is WRITE "ok"
ItemsBefore(s) ==
    <<[token |-> "STMT", name |-> "", before |-> TRUE, def |-> Write(1, <<String("ok")>>)]>>
    \o SelectSeq(RoutineItems(s), LAMBDA it : it.before)
ItemsAfter(s) == SelectSeq(RoutineItems(s), LAMBDA it : ~it.before)

\* Program.parse() of the source: the AST the executor is given
Prog(s) ==
    CASE s.p = "divmod" -> ProgDivMod(s)
      [] s.p = "for" -> ProgFor(s)
      [] s.p = "ret" -> ProgRet(s)
      [] s.p = "scope" -> ProgScope(s)
      [] s.p = "rec" -> ProgRec(s)
      [] s.p = "array" -> ProgArray(s)
      [] s.p = "types" -> ProgTypes(s)
      [] s.p = "retproc" -> ProgRetProc(s)
      [] s.p = "topret" -> ProgTopRet(s)
      [] s.p = "select" -> ProgSelect(s)
      [] s.p = "halt" -> ProgHalt(s)
      [] s.p = "coerce" -> ProgCoerce(s)
      [] s.p = "arity" -> ProgArity(s)
      [] s.p = "read" -> ProgRead(s)
      [] s.p = "readnum" -> ProgReadNum(s)
      [] s.p = "order" -> ProgOrder(s)
      [] s.p = "zero" -> ProgZero(s)
      [] s.p = "repeat" -> ProgRepeat(s)
      [] s.p = "forbound" -> ProgForBound(s)
      [] s.p = "forzero" -> ProgForZero(s)
      [] s.p = "logic" -> ProgLogic(s)
      [] s.p = "template" -> ProgTemplate
      [] s.p = "lexerr" -> Program(None0, << Write(3, <<String("ok")>>) >>, None0, None0, <<>>)
      [] s.p = "routines" -> Parser_parse(ItemsBefore(s), ItemsAfter(s)).val

\* the while loop of lex from position i on, in the given line: the line of
\* the EOF token, or the LexerError with its line
RECURSIVE lex_scan(_, _, _)
lex_scan(chars, i, line) ==
    LET \* the one-character keys of SYMBOLS (the two-character symbols
        \* <- <= >= <> are made of them, so lex accepts the same texts with
        \* or without the longest match)
        SymbolChars == {"=", "<", ">", "+", "-", "*", "/", "%", "(", ")", "[", "]", ",", ":"}
        \* \d of NUM_RE, and the characters of IDENT_RE, over the characters
        \* of the texts lexed here
        Digits == {"0", "1", "2", "3", "4", "5", "6", "7", "8", "9"}
        IdentStart == {"a", "b", "k", "o", "_", "Α", "Γ", "Ε", "Η", "Λ", "Μ", "Ο", "Π", "Ρ",
                       "Σ", "Τ", "Υ", "Χ", "Ψ"}
        \* the position after the comment that starts at j: the newline or
        \* the end
        RECURSIVE EndOfLine(_)
        EndOfLine(j) == IF j > Len(chars) \/ chars[j] = "\n" THEN j ELSE EndOfLine(j + 1)
        \* the position of the quote endq that closes the string whose text
        \* is scanned from j on (a backslash takes the next character with
        \* it), or Len(chars) + 1
        RECURSIVE ClosingQuote(_, _)
        ClosingQuote(j, endq) ==
            IF j > Len(chars) \/ chars[j] = endq THEN j
            ELSE IF chars[j] = "\\" /\ j + 1 <= Len(chars) THEN ClosingQuote(j + 2, endq)
            ELSE ClosingQuote(j + 1, endq)
        \* the position after the longest run of characters of the set
        \* from j on
        RECURSIVE EndOfRun(_, _)
        EndOfRun(j, set) ==
            IF j > Len(chars) \/ chars[j] \notin set THEN j ELSE EndOfRun(j + 1, set)
        \* the end of the match of NUM_RE at j: digits, then a point only
        \* when digits follow it
        EndOfNumber(j) ==
            LET d == EndOfRun(j, Digits)
            IN IF d + 1 <= Len(chars) /\ chars[d] = "." /\ chars[d + 1] \in Digits
               THEN EndOfRun(d + 1, Digits)
               ELSE d
    IN IF i > Len(chars) THEN Ok(line)
       ELSE IF chars[i] = "\n" THEN lex_scan(chars, i + 1, line + 1)
       ELSE IF chars[i] = "!" THEN lex_scan(chars, EndOfLine(i), line)
       ELSE IF chars[i] \in {" ", "\t"} THEN lex_scan(chars, EndOfRun(i, {" ", "\t"}), line)
       ELSE IF chars[i] \in {"\"", "«"}
       THEN LET endq == IF chars[i] = "\"" THEN "\"" ELSE "»"
                q == ClosingQuote(i + 1, endq)
            IN IF q > Len(chars)
               THEN Raise("LexerError", "Μη κλεισμένο αλφαριθμητικό στη γραμμή " \o ToString(line))
               ELSE lex_scan(chars, q + 1, line)
       ELSE IF chars[i] \in SymbolChars THEN lex_scan(chars, i + 1, line)
       ELSE IF chars[i] \in Digits THEN lex_scan(chars, EndOfNumber(i), line)
       ELSE IF chars[i] \in IdentStart
       THEN lex_scan(chars, EndOfRun(i, IdentStart \cup Digits), line)
       ELSE Raise("LexerError",
                  "Μη αναγνωρίσιμο σύμβολο '" \o chars[i] \o "' στη γραμμή " \o ToString(line))

\* the text of a source "lexerr": the program  WRITE "ok"  and, after
\* ΤΕΛΟΣ_ΠΡΟΓΡΑΜΜΑΤΟΣ, one more line: a comment holding @ (a = 0), @ alone
\* (a = 1), an opened string that is not closed (a = 2)
LexText(s) ==
    << "Π", "Ρ", "Ο", "Γ", "Ρ", "Α", "Μ", "Μ", "Α", " ", "Τ", "\n",
       "Α", "Ρ", "Χ", "Η", "\n",
       " ", " ", "Γ", "Ρ", "Α", "Ψ", "Ε", " ", "\"", "o", "k", "\"", "\n",
       "Τ", "Ε", "Λ", "Ο", "Σ", "_", "Π", "Ρ", "Ο", "Γ", "Ρ", "Α", "Μ", "Μ", "Α", "Τ", "Ο", "Σ", "\n" >>
    \o CASE s.a = 0 -> <<"!", " ", "@", "\n">>
         [] s.a = 1 -> <<"@", "\n">>
         [] OTHER -> <<"\"", "a", "b", "\n">>

\* lex(source): the texts of the other sources hold no character lex refuses
lex(s) == IF s.p = "lexerr" THEN lex_scan(LexText(s), 1, 1) ELSE Ok(0)

\* lex and Parser.parse of the source: the Program, or the LexerError or
\* ParseError
Parse(s) ==
    IF ~lex(s).ok THEN lex(s)
    ELSE IF s.p = "routines" THEN Parser_parse(ItemsBefore(s), ItemsAfter(s))
    ELSE Ok(Prog(s))

\* The sources given to compile_and_run
CliSources ==
    {Source("divmod", op, a, b, 0) : op \in {"DIV", "MOD", "MOD_SYM"}, a \in -MaxN..MaxN, b \in -MaxN..MaxN}
    \cup {Source("for", ty, a, b, c) : ty \in {"TYPE_INT", "TYPE_REAL"},
                                       a \in -MaxQ..MaxQ, b \in -MaxQ..MaxQ,
                                       c \in (-MaxQ..MaxQ) \ {0}}
    \cup {Source("array", "", a, b, c) : a \in 0..MaxIdx, b \in 0..MaxIdx, c \in 0..4}
    \cup {Source("ret", "", a, 0, 0) : a \in 0..MaxN}
    \cup {Source("rec", "", a, 0, 0) : a \in 0..2}
    \cup {Source("scope", "", 0, 0, 0), Source("types", "", 0, 0, 0)}
    \cup {Source("retproc", "", a, 0, c) : a \in 0..2, c \in 0..1}
    \cup {Source("topret", "", a, 0, 0) : a \in 0..2}
    \cup {Source("select", "", a, b, c) : a \in 0..MaxN, b \in 0..4, c \in 0..1}
    \cup {Source("routines", "", a, b, 0) : a \in 1..8, b \in 1..8}
    \cup {Source("halt", "", a, 0, 0) : a \in 0..3}
    \cup {Source("read", "", a, 0, 0) : a \in 0..3}
    \cup {Source("lexerr", "", a, 0, 0) : a \in 0..2}
    \cup {Source("template", "", 0, 0, 0)}
    \cup {Source("logic", op, a, b, c) : op \in {"PLUS", "MINUS", "MUL", "DIVIDE", "DIV", "MOD", "MOD_SYM",
                                                   "EQ", "NE", "LT", "LE", "GT", "GE", "AND", "OR"}, a \in 0..1, b \in 0..1, c \in 0..1}
    \cup {Source("forzero", "", a, b, c) : a \in 0..2, b \in 0..2, c \in 0..5}
    \cup {Source("forbound", "", a, b, c) : a \in 0..MaxIdx, b \in 0..1, c \in {-1, 0, 2}}
    \cup {Source("repeat", "", a, b, 0) : a \in 0..MaxIdx, b \in 0..MaxIdx}
    \cup {Source("zero", op, a, b, c) : op \in {"DIVIDE", "DIV", "MOD", "MOD_SYM"},
                                        a \in {0, 3}, b \in 0..2, c \in 0..1}
    \cup {Source("readnum", ty, a, 0, 0) : ty \in {"TYPE_INT", "TYPE_REAL"}, a \in 1..3}
    \cup {Source("order", op, a, b, 0) : op \in {"LT", "LE", "GT", "GE"}, a \in 0..5, b \in 0..5}
    \cup {Source("arity", "", 0, b, c) : b \in 0..3, c \in 0..1}
    \cup {Source("coerce", ty, a, 0, c) : ty \in {"TYPE_INT", "TYPE_REAL", "TYPE_CHAR", "TYPE_BOOL"},
                                          a \in 0..5, c \in 0..2}

\* The files open_file can load in the editor of the IDE
IdeSources ==
    {Source("ret", "", a, 0, 0) : a \in {0, 2}}
    \cup {Source("rec", "", 1, 0, 0), Source("scope", "", 0, 0, 0), Source("types", "", 0, 0, 0)}
    \cup {Source("routines", "", 1, 6, 0), Source("routines", "", 2, 5, 0)}
    \cup {Source("topret", "", 1, 0, 0)}
    \cup {Source("lexerr", "", 1, 0, 0), Source("template", "", 0, 0, 0)}

\* ------------------------------------------------------------------------
\* The executor as an abstract machine
\* ------------------------------------------------------------------------
Top == Head(k)
Rest == Tail(k)
\* exec_statements is in progress and no exception is propagating
Running == entry # "idle" /\ k # <<>> /\ exc = NoExc
\* the `debugger' argument of the executor is a hook (not None)
Debugger == entry = "debug"
\* statements whose execution has begun in this run
NExec == Cardinality({j \in DOMAIN log : log[j].ev = "exec"})

\* the activation of exec_statements(stmts, env), about to call the hook for
\* stmts[i]; pc is the place inside the loop body: before, wait, exec, after
\* a call exec_statements(stmts, env) made with kk left to do after it
PushStmts(stmts, env, kk) == IF stmts = <<>> THEN kk ELSE <<[op |-> "stmts", stmts |-> stmts, i |-> 1, env |-> env, pc |-> "before"]>> \o kk
\* a call eval_expr(e, env)
EvalFrame(e, env) == [op |-> "eval", e |-> e, env |-> env]
\* [eval_expr(e, env) for e in exprs]: left to right
EvalList(exprs, env) == [j \in 1..Len(exprs) |-> EvalFrame(exprs[j], env)]
\* [_coerce_index(eval_expr(idx, env)) for idx in indices]
IndexFrames(indices, env) ==
    [j \in 1..(2 * Len(indices)) |->
        IF j % 2 = 1 THEN EvalFrame(indices[(j + 1) \div 2], env) ELSE [op |-> "coerce_index"]]
\* the n most recent values, oldest first
Args(vv, n) == [j \in 1..n |-> vv[n - j + 1]]
Drop(vv, n) == SubSeq(vv, n + 1, Len(vv))
\* a list of index values as Python ints
IndexValues(vv, n) == [j \in 1..n |-> vv[n - j + 1].v]

FunctionReturn(value) == [cls |-> "FunctionReturn", what |-> "", value |-> value]

\* dict(proc.locals) with one scalar entry per parameter
LocalTypes(def) ==
    LET pnames == {def.params[j].name : j \in 1..Len(def.params)}
    IN [n \in (DOMAIN def.locals) \cup pnames |->
          IF n \in pnames
          THEN Scalar(def.params[CHOOSE j \in 1..Len(def.params) : def.params[j].name = n].type)
          ELSE def.locals[n]]

\* for param, value in zip(params, evaluated_args): child_env.set(param.name, value)
RECURSIVE BindParams(_, _, _, _, _)
BindParams(es, child, params, args, j) ==
    IF j > Len(params) THEN Ok(es)
    ELSE LET r == Env_set(es, child, params[j].name, args[j], <<>>)
         IN IF r.ok THEN BindParams(r.val, child, params, args, j + 1) ELSE r

\* a function call that hands the returned value on as it is
FunctionResult_Raw(return_type, value) == Ok(value)

\* What a function call does with the FunctionReturn it catches
FunctionResult(return_type, value) == Env_coerce(return_type, value)
\* a procedure call that lets the FunctionReturn through to its caller
ProcedureReturn_Passed == FunctionReturn(IntV(5))

\* What a procedure call does with the FunctionReturn it catches
ProcedureReturn == Exc("RuntimeErrorGlossa", "Η διαδικασία δεν μπορεί να επιστρέψει τιμή")

\* a procedure call that catches every exception and returns normally
RECURSIVE Unwind_Recovering(_, _, _, _)
Unwind_Recovering(e, kk, vv, es) ==
    IF kk = <<>>
    THEN [k |-> <<>>, vs |-> <<>>, envs |-> SubSeq(es, 1, 1), exc |-> e]
    ELSE LET f == Head(kk)
             below == SubSeq(es, 1, f.nenv)
         IN IF f.op = "proc_end"
            THEN [k |-> Tail(kk), vs |-> SubSeq(vv, Len(vv) - f.vsd + 1, Len(vv)),
                  envs |-> below, exc |-> NoExc]
            ELSE IF f.op = "func_end"
            THEN Unwind_Recovering(e, Tail(kk), vv, below)
            ELSE Unwind_Recovering(e, Tail(kk), vv, es)

\* An exception e raised with the activations kk pending: it leaves every
\* activation except the try blocks of call_procedure and call_function,
\* which catch FunctionReturn alone.  Gives the machine after the unwinding.
RECURSIVE Unwind(_, _, _, _)
Unwind(e, kk, vv, es) ==
    IF kk = <<>>
    THEN [k |-> <<>>, vs |-> <<>>, envs |-> SubSeq(es, 1, 1), exc |-> e]
    ELSE LET f == Head(kk)
             below == SubSeq(es, 1, f.nenv)
         IN IF f.op = "proc_end"
            THEN IF e.cls = "FunctionReturn"
                 THEN Unwind(ProcedureReturn, Tail(kk), vv, below)
                 ELSE Unwind(e, Tail(kk), vv, below)
            ELSE IF f.op = "func_end"
            THEN IF e.cls = "FunctionReturn"
                 THEN LET c == FunctionResult(f.return_type, e.value)
                      IN IF c.ok
                         THEN [k |-> Tail(kk),
                               vs |-> <<c.val>> \o SubSeq(vv, Len(vv) - f.vsd + 1, Len(vv)),
                               envs |-> below, exc |-> NoExc]
                         ELSE Unwind(c.exc, Tail(kk), vv, below)
                 ELSE Unwind(e, Tail(kk), vv, below)
            ELSE Unwind(e, Tail(kk), vv, es)

Step(kk, vv, es) == k' = kk /\ vs' = vv /\ envs' = es /\ exc' = exc
ThrowFrom(e, kk, vv, es) ==
    LET u == Unwind(e, kk, vv, es)
    IN k' = u.k /\ vs' = u.vs /\ envs' = u.envs /\ exc' = u.exc
\* the statement starts: the activation of exec_statements waits for it
Started == <<[Top EXCEPT !.pc = "after"]>> \o Rest
AtStmt(node) == Top.op = "stmts" /\ Top.pc = "exec" /\ Top.stmts[Top.i].node = node
Stmt == Top.stmts[Top.i]
LogExec == log' = Append(log, [ev |-> "exec", line |-> Stmt.line, env |-> Top.env])
IdeUnchanged == UNCHANGED <<host, src, entry, outcome, debug_active, debug_continue_mode,
                            debug_stop_requested, debug_hook, debug_wait_var, runs,
                            editor, suspended, console>>

\* a call that refuses too few arguments only
CallRoutine_ExtraArgsAccepted(kind, name, args, env, kk) ==
    LET table == IF kind = "proc" THEN Prog(src).procedures ELSE Prog(src).functions
    IN IF name \notin DOMAIN table
       THEN ThrowFrom(Exc("RuntimeErrorGlossa", "Άγνωστη υπορουτίνα"), kk, vs, envs)
       ELSE IF Len(args) < Len(table[name].params)
       THEN ThrowFrom(Exc("RuntimeErrorGlossa", "αναμένει ορίσματα"), kk, vs, envs)
       ELSE Step(EvalList(args, env)
                   \o <<[op |-> "call_env", kind |-> kind, name |-> name, n |-> Len(args), env |-> env]>>
                   \o kk, vs, envs)

\* call_procedure / call_function up to the evaluation of the arguments
CallRoutine(kind, name, args, env, kk) ==
    LET table == IF kind = "proc" THEN Prog(src).procedures ELSE Prog(src).functions
    IN IF name \notin DOMAIN table
       THEN ThrowFrom(Exc("RuntimeErrorGlossa", "Άγνωστη υπορουτίνα"), kk, vs, envs)
       ELSE IF Len(args) # Len(table[name].params)
       THEN ThrowFrom(Exc("RuntimeErrorGlossa", "αναμένει ορίσματα"), kk, vs, envs)
       ELSE Step(EvalList(args, env)
                   \o <<[op |-> "call_env", kind |-> kind, name |-> name, n |-> Len(args), env |-> env]>>
                   \o kk, vs, envs)

\* ------------------------------------------------------------------------
\* eval_expr
\* ------------------------------------------------------------------------
\* operands of which the right one of AND and OR is not evaluated: the
\* neutral constant stands for it
BinOpOperands_LeftOnly(e, env) ==
    IF e.op \in {"AND", "OR"}
    THEN <<EvalFrame(e.left, env), EvalFrame(Bool(e.op = "AND"), env)>>
    ELSE <<EvalFrame(e.left, env), EvalFrame(e.right, env)>>

\* l = eval_expr(node.left) ; r = eval_expr(node.right), for every operator
BinOpOperands(e, env) == <<EvalFrame(e.left, env), EvalFrame(e.right, env)>>

EvalExpr ==
    /\ Running
    /\ Top.op = "eval"
    /\ LET e == Top.e
           env == Top.env
           got == Env_get(envs, env, e.name, <<>>)
       IN CASE e.node \in {"Number", "String", "Bool"} -> Step(Rest, <<e.value>> \o vs, envs)
            [] e.node = "Var" ->
                 IF got.ok THEN Step(Rest, <<got.val>> \o vs, envs)
                 ELSE ThrowFrom(got.exc, Rest, vs, envs)
            [] e.node = "ArrayRef" ->
                 Step(IndexFrames(e.indices, env)
                        \o <<[op |-> "array_get", name |-> e.name, n |-> Len(e.indices), env |-> env]>>
                        \o Rest, vs, envs)
            [] e.node = "FuncCall" -> CallRoutine("func", e.name, e.args, env, Rest)
            [] e.node = "UnOp" ->
                 Step(<<EvalFrame(e.expr, env), [op |-> "unop", o |-> e.op]>> \o Rest, vs, envs)
            [] e.node = "BinOp" ->
                 Step(BinOpOperands(e, env) \o <<[op |-> "binop", o |-> e.op]>> \o Rest, vs, envs)
    /\ UNCHANGED <<outputs, input_queue, log>>
    /\ IdeUnchanged

\* eval_expr, UnOp and BinOp: the operator applied to the operand values
EvalOperator ==
    /\ Running
    /\ Top.op \in {"unop", "binop"}
    /\ LET r == IF Top.op = "unop" THEN UnOpApply(Top.o, vs[1])
                ELSE BinOpApply(Top.o, vs[2], vs[1])
           vrest == IF Top.op = "unop" THEN Drop(vs, 1) ELSE Drop(vs, 2)
       IN IF r.ok THEN Step(Rest, <<r.val>> \o vrest, envs)
          ELSE ThrowFrom(r.exc, Rest, vrest, envs)
    /\ UNCHANGED <<outputs, input_queue, log>>
    /\ IdeUnchanged

\* _coerce_index applied to the value of an index expression
EvalIndex ==
    /\ Running
    /\ Top.op = "coerce_index"
    /\ LET r == CoerceIndex(vs[1])
       IN IF r.ok THEN Step(Rest, <<r.val>> \o Drop(vs, 1), envs)
          ELSE ThrowFrom(r.exc, Rest, Drop(vs, 1), envs)
    /\ UNCHANGED <<outputs, input_queue, log>>
    /\ IdeUnchanged

\* eval_expr, ArrayRef: env.get(node.name, indices)
EvalArrayRef ==
    /\ Running
    /\ Top.op = "array_get"
    /\ LET r == Env_get(envs, Top.env, Top.name, IndexValues(vs, Top.n))
       IN IF r.ok THEN Step(Rest, <<r.val>> \o Drop(vs, Top.n), envs)
          ELSE ThrowFrom(r.exc, Rest, Drop(vs, Top.n), envs)
    /\ UNCHANGED <<outputs, input_queue, log>>
    /\ IdeUnchanged

\* ------------------------------------------------------------------------
\* call_procedure and call_function, after the arguments are evaluated
\* ------------------------------------------------------------------------
RoutineDef(kind, name) ==
    IF kind = "proc" THEN Prog(src).procedures[name] ELSE Prog(src).functions[name]

\* child_env = Env(local_types, parent=env)
CallEnv ==
    /\ Running
    /\ Top.op = "call_env"
    /\ LET def == RoutineDef(Top.kind, Top.name)
           child == Env_init(LocalTypes(def), Top.env)
       IN Step(<<[op |-> "call_bind", kind |-> Top.kind, name |-> Top.name,
                  args |-> Args(vs, Top.n), child |-> Len(envs) + 1, nenv |-> Len(envs)]>>
                 \o Rest, Drop(vs, Top.n), Append(envs, child))
    /\ UNCHANGED <<outputs, input_queue, log>>
    /\ IdeUnchanged

\* the parameters are set in the child, then the body starts inside the try
CallBind ==
    /\ Running
    /\ Top.op = "call_bind"
    /\ LET def == RoutineDef(Top.kind, Top.name)
           r == BindParams(envs, Top.child, def.params, Top.args, 1)
           handler == [op |-> IF Top.kind = "proc" THEN "proc_end" ELSE "func_end",
                       name |-> Top.name, nenv |-> Top.nenv, vsd |-> Len(vs),
                       return_type |-> IF Top.kind = "proc" THEN "" ELSE def.return_type]
       IN IF r.ok THEN Step(PushStmts(def.statements, Top.child, <<handler>> \o Rest), vs, r.val)
          ELSE ThrowFrom(r.exc, Rest, vs, SubSeq(envs, 1, Top.nenv))
    /\ UNCHANGED <<outputs, input_queue, log>>
    /\ IdeUnchanged

\* the body ended without an exception: a procedure returns, a function
\* raises "did not return a value"
CallEnd ==
    /\ Running
    /\ Top.op \in {"proc_end", "func_end"}
    /\ IF Top.op = "proc_end"
       THEN Step(Rest, vs, SubSeq(envs, 1, Top.nenv))
       ELSE ThrowFrom(Exc("RuntimeErrorGlossa", "Η συνάρτηση δεν επέστρεψε τιμή"),
                      Rest, vs, SubSeq(envs, 1, Top.nenv))
    /\ UNCHANGED <<outputs, input_queue, log>>
    /\ IdeUnchanged

\* ------------------------------------------------------------------------
\* exec_statements and the debugger hook
\* ------------------------------------------------------------------------
DebugStopExc == Exc("DebugStop", "")

\* exec_statements: debugger.before_statement(st, env), which is
\* GlossaIDE.debug_before_statement up to wait_variable
BeforeStatement ==
    /\ Running
    /\ Top.op = "stmts" /\ Top.pc = "before"
    /\ NExec < MaxExec
    /\ IF ~Debugger
       THEN /\ Step(<<[Top EXCEPT !.pc = "exec"]>> \o Rest, vs, envs)
            /\ UNCHANGED <<log, debug_wait_var>>
       ELSE /\ log' = Append(log, [ev |-> "before", line |-> Stmt.line, env |-> Top.env])
            /\ IF debug_stop_requested
               THEN ThrowFrom(DebugStopExc, Rest, vs, envs) /\ UNCHANGED debug_wait_var
               ELSE IF debug_continue_mode
               THEN Step(<<[Top EXCEPT !.pc = "exec"]>> \o Rest, vs, envs) /\ UNCHANGED debug_wait_var
               ELSE /\ Step(<<[Top EXCEPT !.pc = "wait"]>> \o Rest, vs, envs)
                    /\ debug_wait_var' = FALSE
    /\ UNCHANGED <<outputs, input_queue>>
    /\ UNCHANGED <<host, src, entry, outcome, debug_active, debug_continue_mode,
                   debug_stop_requested, debug_hook, runs, editor, suspended, console>>

\* the interpreter is blocked in wait_variable(debug_wait_var)
Paused == Running /\ Top.op = "stmts" /\ Top.pc = "wait"

\* debug_before_statement returning from wait_variable without its second
\* reading of the stop flag
DebugResume_Unchecked ==
    /\ Paused
    /\ debug_wait_var = TRUE
    /\ Step(<<[Top EXCEPT !.pc = "exec"]>> \o Rest, vs, envs)
    /\ UNCHANGED <<outputs, input_queue, log>>
    /\ IdeUnchanged

\* wait_variable returns once the variable is set; debug_before_statement
\* then reads the stop flag
DebugResume ==
    /\ Paused
    /\ debug_wait_var = TRUE
    /\ IF debug_stop_requested
       THEN ThrowFrom(DebugStopExc, Rest, vs, envs)
       ELSE Step(<<[Top EXCEPT !.pc = "exec"]>> \o Rest, vs, envs)
    /\ UNCHANGED <<outputs, input_queue, log>>
    /\ IdeUnchanged

\* exec_statements: debugger.after_statement(st, env), then the next statement
AfterStatement ==
    /\ Running
    /\ Top.op = "stmts" /\ Top.pc = "after"
    /\ log' = IF Debugger
              THEN Append(log, [ev |-> "after", line |-> Stmt.line, env |-> Top.env])
              ELSE log
    /\ IF Top.i < Len(Top.stmts)
       THEN Step(<<[Top EXCEPT !.i = Top.i + 1, !.pc = "before"]>> \o Rest, vs, envs)
       ELSE Step(Rest, vs, envs)
    /\ UNCHANGED <<outputs, input_queue>>
    /\ IdeUnchanged

\* ------------------------------------------------------------------------
\* exec_statement, one action per statement class
\* ------------------------------------------------------------------------
ExecAssign ==
    /\ Running
    /\ AtStmt("Assign") \/ Top.op = "assign_set"
    /\ IF Top.op = "stmts"
       THEN /\ Step(<<EvalFrame(Stmt.expr, Top.env)>> \o IndexFrames(Stmt.indices, Top.env)
                      \o <<[op |-> "assign_set", name |-> Stmt.name, n |-> Len(Stmt.indices),
                            env |-> Top.env]>>
                      \o Started, vs, envs)
            /\ LogExec
       ELSE /\ LET r == Env_set(envs, Top.env, Top.name, vs[Top.n + 1], IndexValues(vs, Top.n))
               IN IF r.ok THEN Step(Rest, Drop(vs, Top.n + 1), r.val)
                  ELSE ThrowFrom(r.exc, Rest, Drop(vs, Top.n + 1), envs)
            /\ UNCHANGED log
    /\ UNCHANGED <<outputs, input_queue>>
    /\ IdeUnchanged

ExecWrite ==
    /\ Running
    /\ AtStmt("Write") \/ Top.op = "write_emit"
    /\ IF Top.op = "stmts"
       THEN /\ Step(EvalList(Stmt.exprs, Top.env) \o <<[op |-> "write_emit", n |-> Len(Stmt.exprs)]>>
                      \o Started, vs, envs)
            /\ LogExec
            /\ UNCHANGED <<outputs, console>>
       ELSE /\ outputs' = Append(outputs, JoinText(Args(vs, Top.n)))
            /\ console' = IF host = "ide"
                          THEN Append(console, [kind |-> "write", text |-> JoinText(Args(vs, Top.n))])
                          ELSE console
            /\ Step(Rest, Drop(vs, Top.n), envs)
            /\ UNCHANGED log
    /\ UNCHANGED input_queue
    /\ UNCHANGED <<host, src, entry, outcome, debug_active, debug_continue_mode,
                   debug_stop_requested, debug_hook, debug_wait_var, runs, editor, suspended>>

\* a read that hands over the last line of the queue
IO_read_Last(queue) ==
    IF queue = <<>>
    THEN RuntimeErrorGlossa(IF host = "cli" THEN "Απαιτείται είσοδος" ELSE "Η είσοδος ακυρώθηκε")
    ELSE Ok(queue[Len(queue)])

\* IOHandler.read, and GUIIO.read where the user cancels the dialog once the
\* scripted answers are used up
IO_read(queue) ==
    IF queue = <<>>
    THEN RuntimeErrorGlossa(IF host = "cli" THEN "Απαιτείται είσοδος" ELSE "Η είσοδος ακυρώθηκε")
    ELSE Ok(Head(queue))

ExecRead ==
    /\ Running
    /\ AtStmt("Read") \/ Top.op \in {"read", "read_set"}
    /\ IF Top.op = "stmts"
       THEN /\ Step(<<[op |-> "read", targets |-> Stmt.targets, j |-> 1, env |-> Top.env]>>
                      \o Started, vs, envs)
            /\ LogExec
            /\ UNCHANGED input_queue
       ELSE IF Top.op = "read"
       THEN LET target == Top.targets[Top.j]
                more == IF Top.j < Len(Top.targets) THEN <<[Top EXCEPT !.j = Top.j + 1]>> ELSE <<>>
                raw == IO_read(input_queue)
                tp == Env_get_type(envs, Top.env, target.name)
                val == ConvertInput(raw.val, tp.val.base)
                set == Env_set(envs, Top.env, target.name, val.val, <<>>)
            IN /\ input_queue' = IF raw.ok THEN Tail(input_queue) ELSE input_queue
               /\ UNCHANGED log
               /\ IF ~raw.ok THEN ThrowFrom(raw.exc, Rest, vs, envs)
                  ELSE IF ~tp.ok THEN ThrowFrom(tp.exc, Rest, vs, envs)
                  ELSE IF ~val.ok THEN ThrowFrom(val.exc, Rest, vs, envs)
                  ELSE IF target.node = "Var"
                  THEN IF set.ok THEN Step(more \o Rest, vs, set.val)
                       ELSE ThrowFrom(set.exc, Rest, vs, envs)
                  ELSE Step(IndexFrames(target.indices, Top.env)
                              \o <<[op |-> "read_set", name |-> target.name,
                                    n |-> Len(target.indices), env |-> Top.env]>>
                              \o more \o Rest, <<val.val>> \o vs, envs)
       ELSE /\ LET r == Env_set(envs, Top.env, Top.name, vs[Top.n + 1], IndexValues(vs, Top.n))
               IN IF r.ok THEN Step(Rest, Drop(vs, Top.n + 1), r.val)
                  ELSE ThrowFrom(r.exc, Rest, Drop(vs, Top.n + 1), envs)
            /\ UNCHANGED <<log, input_queue>>
    /\ UNCHANGED outputs
    /\ IdeUnchanged

ExecIf ==
    /\ Running
    /\ AtStmt("If") \/ Top.op = "if_branch"
    /\ IF Top.op = "stmts"
       THEN /\ Step(<<EvalFrame(Stmt.cond, Top.env), [op |-> "if_branch", st |-> Stmt, env |-> Top.env]>>
                      \o Started, vs, envs)
            /\ LogExec
       ELSE /\ IF Truthy(vs[1])
               THEN Step(PushStmts(Top.st.then_body, Top.env, Rest), Drop(vs, 1), envs)
               ELSE Step(PushStmts(Top.st.else_body, Top.env, Rest), Drop(vs, 1), envs)
            /\ UNCHANGED log
    /\ UNCHANGED <<outputs, input_queue>>
    /\ IdeUnchanged

ExecWhile ==
    /\ Running
    /\ AtStmt("While") \/ Top.op = "while_test"
    /\ IF Top.op = "stmts"
       THEN /\ Step(<<EvalFrame(Stmt.cond, Top.env), [op |-> "while_test", st |-> Stmt, env |-> Top.env]>>
                      \o Started, vs, envs)
            /\ LogExec
       ELSE /\ IF Truthy(vs[1])
               THEN Step(PushStmts(Top.st.body, Top.env, <<EvalFrame(Top.st.cond, Top.env), Top>> \o Rest),
                         Drop(vs, 1), envs)
               ELSE Step(Rest, Drop(vs, 1), envs)
            /\ UNCHANGED log
    /\ UNCHANGED <<outputs, input_queue>>
    /\ IdeUnchanged

\* a loop that tests the condition before every execution of the body
ExecRepeat_TestFirst ==
    /\ Running
    /\ AtStmt("Repeat") \/ Top.op = "repeat_test"
    /\ IF Top.op = "stmts"
       THEN /\ Step(<<EvalFrame(Stmt.cond, Top.env),
                      [op |-> "repeat_test", st |-> Stmt, env |-> Top.env]>> \o Started,
                    vs, envs)
            /\ LogExec
       ELSE /\ IF Truthy(vs[1])
               THEN Step(Rest, Drop(vs, 1), envs)
               ELSE Step(PushStmts(Top.st.body, Top.env, <<EvalFrame(Top.st.cond, Top.env), Top>> \o Rest),
                         Drop(vs, 1), envs)
            /\ UNCHANGED log
    /\ UNCHANGED <<outputs, input_queue>>
    /\ IdeUnchanged

\* while True: body; if cond: break
ExecRepeat ==
    /\ Running
    /\ AtStmt("Repeat") \/ Top.op = "repeat_test"
    /\ IF Top.op = "stmts"
       THEN /\ Step(PushStmts(Stmt.body, Top.env,
                              <<EvalFrame(Stmt.cond, Top.env),
                                [op |-> "repeat_test", st |-> Stmt, env |-> Top.env]>> \o Started),
                    vs, envs)
            /\ LogExec
       ELSE /\ IF Truthy(vs[1])
               THEN Step(Rest, Drop(vs, 1), envs)
               ELSE Step(PushStmts(Top.st.body, Top.env, <<EvalFrame(Top.st.cond, Top.env), Top>> \o Rest),
                         Drop(vs, 1), envs)
            /\ UNCHANGED log
    /\ UNCHANGED <<outputs, input_queue>>
    /\ IdeUnchanged

\* a scan that never reaches the default body
RECURSIVE SelectScan_NoDefault(_, _, _, _, _, _)
SelectScan_NoDefault(st, env, target, ci, vi, kk) ==
    IF ci > Len(st.cases) THEN kk
    ELSE IF vi > Len(st.cases[ci].values) THEN SelectScan_NoDefault(st, env, target, ci + 1, 1, kk)
    ELSE <<EvalFrame(st.cases[ci].values[vi], env),
           [op |-> "select_cmp", st |-> st, env |-> env, target |-> target, ci |-> ci, vi |-> vi]>>
         \o kk

\* the scan of the case values from value vi of case ci on: the next value
\* to evaluate and compare, or the default body when no case is left
RECURSIVE SelectScan(_, _, _, _, _, _)
SelectScan(st, env, target, ci, vi, kk) ==
    IF ci > Len(st.cases) THEN PushStmts(st.default, env, kk)
    ELSE IF vi > Len(st.cases[ci].values) THEN SelectScan(st, env, target, ci + 1, 1, kk)
    ELSE <<EvalFrame(st.cases[ci].values[vi], env),
           [op |-> "select_cmp", st |-> st, env |-> env, target |-> target, ci |-> ci, vi |-> vi]>>
         \o kk

ExecSelect ==
    /\ Running
    /\ AtStmt("Select") \/ Top.op \in {"select_start", "select_cmp"}
    /\ IF Top.op = "stmts"
       THEN /\ Step(<<EvalFrame(Stmt.expr, Top.env), [op |-> "select_start", st |-> Stmt, env |-> Top.env]>>
                      \o Started, vs, envs)
            /\ LogExec
       ELSE IF Top.op = "select_start"
       THEN /\ Step(SelectScan(Top.st, Top.env, vs[1], 1, 1, Rest), Drop(vs, 1), envs)
            /\ UNCHANGED log
       ELSE /\ IF PyEq(vs[1], Top.target)
               THEN Step(PushStmts(Top.st.cases[Top.ci].body, Top.env, Rest), Drop(vs, 1), envs)
               ELSE Step(SelectScan(Top.st, Top.env, Top.target, Top.ci, Top.vi + 1, Rest),
                         Drop(vs, 1), envs)
            /\ UNCHANGED log
    /\ UNCHANGED <<outputs, input_queue>>
    /\ IdeUnchanged

ExecProcCall ==
    /\ Running
    /\ AtStmt("ProcCall")
    /\ CallRoutine("proc", Stmt.name, Stmt.args, Top.env, Started)
    /\ LogExec
    /\ UNCHANGED <<outputs, input_queue>>
    /\ IdeUnchanged

ExecReturn ==
    /\ Running
    /\ AtStmt("Return") \/ Top.op = "return_raise"
    /\ IF Top.op = "stmts"
       THEN /\ Step(<<EvalFrame(Stmt.expr, Top.env), [op |-> "return_raise"]>> \o Started, vs, envs)
            /\ LogExec
       ELSE /\ ThrowFrom(FunctionReturn(vs[1]), Rest, Drop(vs, 1), envs)
            /\ UNCHANGED log
    /\ UNCHANGED <<outputs, input_queue>>
    /\ IdeUnchanged

\* a loop test that stops one step early: < and > for <= and >=
ForContinues_Strict(asc, cur, end) == PyOrder(IF asc THEN "LT" ELSE "GT", cur, end)

\* a loop test that reads the variable of the end expression again
ForContinues_Reevaluated(asc, cur, end) ==
    PyOrder(IF asc THEN "LE" ELSE "GE", cur,
            IF Top.st.end.node = "Var" THEN Env_get(envs, Top.env, Top.st.end.name, <<>>).val
            ELSE end)

\* a direction rule that counts a zero step as descending
ForAscending_Positive(step) == PyOrder("GT", step, IntV(0))

\* the direction of the loop: if step >= 0
ForAscending(step) == PyOrder("GE", step, IntV(0))

\* the test of the loop: env.get(var) <= end when step >= 0, else >= end
ForContinues(asc, cur, end) == PyOrder(IF asc THEN "LE" ELSE "GE", cur, end)

ExecFor ==
    /\ Running
    /\ AtStmt("For") \/ Top.op \in {"for_init", "for_test", "for_incr"}
    /\ IF Top.op = "stmts"
       THEN /\ Step(<<EvalFrame(Stmt.start, Top.env), EvalFrame(Stmt.end, Top.env)>>
                      \o (IF Stmt.step = NoStep THEN <<>> ELSE <<EvalFrame(Stmt.step, Top.env)>>)
                      \o <<[op |-> "for_init", st |-> Stmt, env |-> Top.env]>>
                      \o Started, vs, envs)
            /\ LogExec
       ELSE IF Top.op = "for_init"
       THEN LET has == Top.st.step # NoStep
                step == IF has THEN vs[1] ELSE IntV(1)
                end == IF has THEN vs[2] ELSE vs[1]
                start == IF has THEN vs[3] ELSE vs[2]
                vrest == Drop(vs, IF has THEN 3 ELSE 2)
                set == Env_set(envs, Top.env, Top.st.var, start, <<>>)
                asc == ForAscending(step)
            IN /\ IF ~set.ok THEN ThrowFrom(set.exc, Rest, vrest, envs)
                  ELSE IF ~asc.ok THEN ThrowFrom(asc.exc, Rest, vrest, set.val)
                  ELSE Step(<<[op |-> "for_test", st |-> Top.st, env |-> Top.env, end |-> end,
                               step |-> step, asc |-> asc.val.v]>> \o Rest, vrest, set.val)
               /\ UNCHANGED log
       ELSE IF Top.op = "for_test"
       THEN LET cur == Env_get(envs, Top.env, Top.st.var, <<>>)
                go == ForContinues(Top.asc, cur.val, Top.end)
            IN /\ IF ~cur.ok THEN ThrowFrom(cur.exc, Rest, vs, envs)
                  ELSE IF ~go.ok THEN ThrowFrom(go.exc, Rest, vs, envs)
                  ELSE IF go.val.v
                  THEN Step(PushStmts(Top.st.body, Top.env, <<[Top EXCEPT !.op = "for_incr"]>> \o Rest),
                            vs, envs)
                  ELSE Step(Rest, vs, envs)
               /\ UNCHANGED log
       ELSE LET cur == Env_get(envs, Top.env, Top.st.var, <<>>)
                sum == BinOpApply("PLUS", cur.val, Top.step)
                set == Env_set(envs, Top.env, Top.st.var, sum.val, <<>>)
            IN /\ IF ~cur.ok THEN ThrowFrom(cur.exc, Rest, vs, envs)
                  ELSE IF ~sum.ok THEN ThrowFrom(sum.exc, Rest, vs, envs)
                  ELSE IF ~set.ok THEN ThrowFrom(set.exc, Rest, vs, envs)
                  ELSE Step(<<[Top EXCEPT !.op = "for_test"]>> \o Rest, vs, set.val)
               /\ UNCHANGED log
    /\ UNCHANGED <<outputs, input_queue>>
    /\ IdeUnchanged

\* ------------------------------------------------------------------------
\* Entry points: compile_and_run, GlossaIDE.run_code, the debugger buttons
\* ------------------------------------------------------------------------
NoOutcome == [kind |-> "none", cls |-> ""]

\* the answers available to ΔΙΑΒΑΣΕ: the list given to compile_and_run, or
\* what the user types in the dialogs before cancelling
Answers(s) ==
    LET all == Prog(s).inputs
    IN IF all = <<>> THEN {all} ELSE {all, SubSeq(all, 1, 1)}

\* lex, parse, Env(prog.var_decls, ...), the IO handler, and the call of
\* exec_statements(prog.statements, env, io, debugger), on the text of the
\* editor (the source argument), after prepare_output has cleared the
\* console; a handler that is itself running inside a dialog leaves the
\* execution that opened the dialog waiting
StartRun(mode, answers) ==
    /\ src' = editor
    /\ console' = <<>>
    /\ envs' = <<Env_init(Prog(editor).var_decls, 0)>>
    /\ k' = PushStmts(Prog(editor).statements, 1, <<>>)
    /\ vs' = <<>>
    /\ exc' = NoExc
    /\ outputs' = <<>>
    /\ input_queue' = answers
    /\ log' = <<>>
    /\ outcome' = NoOutcome
    /\ entry' = mode
    /\ runs' = runs + 1
    /\ suspended' = IF entry = "idle" THEN suspended
                    ELSE << [src |-> src, entry |-> entry, k |-> k, vs |-> vs, envs |-> envs,
                             outputs |-> outputs, input_queue |-> input_queue, log |-> log] >>
                         \o suspended

\* the line append_out adds to the console for the outcome m of a handler
\* that ended with the exception e
ConsoleMessage(m, e) == [kind |-> m.kind, text |-> e.what]

\* lex or Parser.parse raised: no Env, no IO handler, no call of
\* exec_statements; the caller of compile_and_run gets the exception, the
\* console of the IDE (cleared by prepare_output) gets the message
ParseFailed(kind) ==
    /\ outcome' = [kind |-> kind, cls |-> Parse(editor).exc.cls]
    /\ console' = IF host = "ide" THEN <<ConsoleMessage(outcome', Parse(editor).exc)>> ELSE console
    /\ runs' = runs + 1
    /\ UNCHANGED <<src, entry, k, vs, envs, outputs, input_queue, exc, log, suspended>>

\* which except clause of the IDE reports the failure
FailureKind(s) == IF lex(s).ok THEN "parse_error" ELSE "lex_error"

\* exec_statements has returned or raised
Ended == entry # "idle" /\ k = <<>>

CompileAndRun ==
    /\ host = "cli" /\ entry = "idle" /\ runs = 0
    /\ IF Parse(editor).ok
       THEN \E answers \in Answers(editor) : StartRun("run", answers)
       ELSE ParseFailed("raised")
    /\ UNCHANGED <<host, editor, debug_active, debug_continue_mode, debug_stop_requested,
                   debug_hook, debug_wait_var>>

\* a compile_and_run that lets every exception through as it is
Reraised_AsIs(e) == e.cls

\* the class of the exception compile_and_run raises when exec_statements
\* raised e: except FunctionReturn: raise RuntimeErrorGlossa(...)
Reraised(e) == IF e.cls = "FunctionReturn" THEN "RuntimeErrorGlossa" ELSE e.cls

\* compile_and_run returns io.outputs, or raises
CompileAndRunEnd ==
    /\ host = "cli" /\ Ended
    /\ outcome' = IF exc = NoExc THEN [kind |-> "returned", cls |-> ""]
                  ELSE [kind |-> "raised", cls |-> Reraised(exc)]
    /\ entry' = "idle"
    /\ UNCHANGED <<host, src, k, vs, envs, outputs, input_queue, exc, log, runs,
                   debug_active, debug_continue_mode, debug_stop_requested, debug_hook,
                   debug_wait_var, editor, suspended, console>>

\* The toolbar answers when no handler is running, when the debugger sits in
\* wait_variable, and when the dialog of a ΔΙΑΒΑΣΕ opens: askstring waits for
\* the dialog to be visible before it grabs the pointer, and the presses made
\* while the handler was busy are handled in that wait
GuiWaiting == host = "ide" /\ Paused /\ debug_wait_var = FALSE
GuiReading == host = "ide" /\ Running /\ Top.op = "read"
GuiServed == (host = "ide" /\ entry = "idle") \/ GuiWaiting \/ GuiReading

\* the handler returns: to the event loop or, when it ran inside a dialog,
\* to the execution that opened the dialog
HandlerReturn ==
    IF suspended = <<>>
    THEN /\ entry' = "idle"
         /\ UNCHANGED <<src, k, vs, envs, outputs, input_queue, exc, log, suspended>>
    ELSE /\ src' = Head(suspended).src
         /\ entry' = Head(suspended).entry
         /\ k' = Head(suspended).k
         /\ vs' = Head(suspended).vs
         /\ envs' = Head(suspended).envs
         /\ outputs' = Head(suspended).outputs
         /\ input_queue' = Head(suspended).input_queue
         /\ log' = Head(suspended).log
         /\ exc' = NoExc
         /\ suspended' = Tail(suspended)

RunCode ==
    /\ GuiServed
    /\ IF debug_active
       THEN UNCHANGED vars
       ELSE /\ runs < MaxRuns
            /\ IF Parse(editor).ok
               THEN \E answers \in Answers(editor) : StartRun("run", answers)
               ELSE ParseFailed(FailureKind(editor))
            /\ UNCHANGED <<host, editor, debug_active, debug_continue_mode, debug_stop_requested,
                           debug_hook, debug_wait_var>>

\* the message appended to the console by the except clauses
Message(e) ==
    IF e = NoExc THEN [kind |-> "completed", cls |-> ""]
    ELSE IF e.cls = "DebugStop" THEN [kind |-> "stopped", cls |-> e.cls]
    ELSE IF e.cls = "FunctionReturn" THEN [kind |-> "return_outside", cls |-> e.cls]
    ELSE IF e.cls = "RuntimeErrorGlossa" THEN [kind |-> "runtime_error", cls |-> e.cls]
    ELSE [kind |-> "unknown_error", cls |-> e.cls]

RunCodeEnd ==
    /\ host = "ide" /\ entry = "run" /\ Ended
    /\ outcome' = IF exc = NoExc THEN [kind |-> "silent", cls |-> ""] ELSE Message(exc)
    /\ console' = IF exc = NoExc THEN console ELSE Append(console, ConsoleMessage(outcome', exc))
    /\ HandlerReturn
    /\ UNCHANGED <<host, runs, editor, debug_active, debug_continue_mode, debug_stop_requested,
                   debug_hook, debug_wait_var>>

start_debug_session(continue_mode) ==
    /\ runs < MaxRuns
    /\ IF Parse(editor).ok
       THEN /\ \E answers \in Answers(editor) : StartRun("debug", answers)
            /\ debug_continue_mode' = continue_mode
            /\ debug_stop_requested' = FALSE
            /\ debug_hook' = TRUE
            /\ debug_active' = TRUE
       ELSE /\ ParseFailed(FailureKind(editor))
            /\ UNCHANGED <<debug_continue_mode, debug_stop_requested, debug_hook, debug_active>>
    /\ UNCHANGED <<host, editor, debug_wait_var>>

\* an active session is told to go on: the flag, then debug_wait_var.set(True)
Resume(continue_mode) ==
    /\ debug_continue_mode' = continue_mode
    /\ debug_wait_var' = TRUE
    /\ UNCHANGED <<host, src, entry, k, vs, envs, outputs, input_queue, exc, outcome, log, runs,
                   debug_active, debug_stop_requested, debug_hook, editor, suspended, console>>

debug_step ==
    /\ GuiServed
    /\ IF ~debug_active THEN start_debug_session(FALSE) ELSE Resume(FALSE)

debug_continue ==
    /\ GuiServed
    /\ IF ~debug_active THEN start_debug_session(TRUE) ELSE Resume(TRUE)

debug_stop ==
    /\ GuiServed
    /\ IF ~debug_active
       THEN UNCHANGED vars
       ELSE /\ debug_stop_requested' = TRUE
            /\ debug_wait_var' = TRUE
            /\ UNCHANGED <<host, src, entry, k, vs, envs, outputs, input_queue, exc, outcome, log,
                           runs, debug_active, debug_continue_mode, debug_hook, editor,
                           suspended, console>>

\* a debug_finish that leaves the stop request standing
debug_finish_KeepsStopRequest ==
    /\ host = "ide" /\ entry = "debug" /\ Ended
    /\ outcome' = Message(exc)
    /\ console' = Append(console, ConsoleMessage(outcome', exc))
    /\ debug_active' = FALSE
    /\ debug_continue_mode' = FALSE
    /\ debug_hook' = FALSE
    /\ debug_wait_var' = TRUE
    /\ HandlerReturn
    /\ UNCHANGED <<host, runs, editor, debug_stop_requested>>

\* the except clauses of start_debug_session, then debug_finish
debug_finish ==
    /\ host = "ide" /\ entry = "debug" /\ Ended
    /\ outcome' = Message(exc)
    /\ console' = Append(console, ConsoleMessage(outcome', exc))
    /\ debug_active' = FALSE
    /\ debug_continue_mode' = FALSE
    /\ debug_stop_requested' = FALSE
    /\ debug_hook' = FALSE
    /\ debug_wait_var' = TRUE
    /\ HandlerReturn
    /\ UNCHANGED <<host, runs, editor>>

\* open_file with a file chosen: the text of the editor is replaced (followed
\* while the IDE can still start a run)
open_file ==
    /\ GuiServed
    /\ runs < MaxRuns
    /\ editor' \in IdeSources
    /\ UNCHANGED <<host, src, entry, k, vs, envs, outputs, input_queue, exc, outcome,
                   debug_active, debug_continue_mode, debug_stop_requested, debug_hook,
                   debug_wait_var, log, runs, suspended, console>>

\* ------------------------------------------------------------------------
\* The system
\* ------------------------------------------------------------------------
Init ==
    /\ host \in {"cli", "ide"}
    /\ editor \in IF host = "cli" THEN CliSources ELSE {Source("template", "", 0, 0, 0)}
    /\ src = editor
    /\ suspended = <<>>
    /\ console = <<>>
    /\ entry = "idle"
    /\ k = <<>> /\ vs = <<>> /\ envs = <<>>
    /\ outputs = <<>> /\ input_queue = <<>>
    /\ exc = NoExc
    /\ outcome = NoOutcome
    /\ debug_active = FALSE
    /\ debug_continue_mode = FALSE
    /\ debug_stop_requested = FALSE
    /\ debug_hook = FALSE
    /\ debug_wait_var = FALSE
    /\ log = <<>>
    /\ runs = 0

Next ==
    \/ CompileAndRun \/ CompileAndRunEnd
    \/ RunCode \/ RunCodeEnd
    \/ debug_step \/ debug_continue \/ debug_stop \/ debug_finish
    \/ open_file
    \/ BeforeStatement \/ DebugResume \/ AfterStatement
    \/ ExecAssign \/ ExecWrite \/ ExecRead \/ ExecIf \/ ExecWhile \/ ExecRepeat
    \/ ExecSelect \/ ExecProcCall \/ ExecReturn \/ ExecFor
    \/ EvalExpr \/ EvalOperator \/ EvalIndex \/ EvalArrayRef
    \/ CallEnv \/ CallBind \/ CallEnd

Spec == Init /\ [][Next]_vars

\* ------------------------------------------------------------------------
\* Properties
\* ------------------------------------------------------------------------
\* how many times the hook event ev was recorded for the statement at `line'
\* run in environment env
Count(ev, line, env) ==
    Cardinality({j \in DOMAIN log : log[j] = [ev |-> ev, line |-> line, env |-> env]})

\* C1: with a debugger attached, every statement whose execution began in a
\* session that ran to completion (Return statements and the statements
\* enclosing them included) had before_statement called once and then
\* after_statement called once, with the environment it ran in.
C1_EveryStatementBracketed ==
    (host = "ide" /\ entry = "idle" /\ outcome.kind = "completed") =>
        \A j \in DOMAIN log :
            log[j].ev = "exec" =>
                /\ Count("before", log[j].line, log[j].env) = Count("exec", log[j].line, log[j].env)
                /\ Count("after", log[j].line, log[j].env) = Count("exec", log[j].line, log[j].env)

\* a step of the executor: no handler of the IDE has started, ended or
\* been handled in it
ExecutorStep ==
    /\ UNCHANGED <<entry, runs, editor, suspended, debug_continue_mode, debug_stop_requested>>
    /\ debug_wait_var' => debug_wait_var
\* the step neither starts an execution nor returns to a waiting one
SameExecution == runs' = runs /\ suspended' = suspended

\* the call of before_statement that reads the stop flag: at its entry or
\* on its return from wait_variable
StopRead ==
    /\ Debugger /\ Running /\ debug_stop_requested
    /\ Top.op = "stmts"
    /\ \/ Top.pc = "before" /\ NExec < MaxExec
       \/ Top.pc = "wait" /\ debug_wait_var

\* C2: once the stop flag is set, the call of before_statement that reads it
\* raises the stop signal without calling after_statement; while the flag
\* is set no statement starts and nothing is written; from the raise on
\* nothing is written, read or stored, the signal reaches the entry point
\* through every enclosing call as it was raised, and the session ends with
\* the outcome "stopped by user".
C2_StopIsClean ==
    [][/\ (StopRead /\ ExecutorStep) =>
             /\ exc' = DebugStopExc /\ k' = <<>>
             /\ outputs' = outputs /\ input_queue' = input_queue
             /\ Len(envs') <= Len(envs)
             /\ \A e \in 1..Len(envs') : envs'[e] = envs[e]
             /\ log' = IF Top.pc = "before"
                       THEN Append(log, [ev |-> "before", line |-> Stmt.line, env |-> Top.env])
                       ELSE log
       /\ (debug_stop_requested /\ ExecutorStep) =>
             /\ outputs' = outputs
             /\ Len(log') >= Len(log)
             /\ \A j \in 1..Len(log') : IF j <= Len(log) THEN log'[j] = log[j]
                                        ELSE log'[j].ev # "exec"
       /\ (entry = "debug" /\ exc.cls = "DebugStop") =>
             /\ outcome'.kind = "stopped"
             /\ IF suspended = <<>>
                THEN entry' = "idle" /\ UNCHANGED <<k, vs, envs, outputs, input_queue, log, exc>>
                ELSE entry' = Head(suspended).entry /\ k' = Head(suspended).k]_vars

\* C2 witness: the session was stopped at a statement of a routine body
C2_StoppedInsideCall ==
    /\ outcome.kind = "stopped"
    /\ log # <<>>
    /\ log[Len(log)].ev = "before"
    /\ log[Len(log)].env > 1

\* C3: the parent of the environment of every routine invocation is the
\* root environment, at any call depth.
C3_ChildOfRoot ==
    \A e \in 2..Len(envs) : envs[e].parent = 1

\* the run of compile_and_run on the source has ended
CliRunEnded == host = "cli" /\ entry = "idle" /\ runs = 1

\* max(0, floor((e-s)/k) + 1) for k > 0, max(0, floor((s-e)/(-k)) + 1) for
\* k < 0; s, e and k in the same unit
ForCount(s, e, step) ==
    LET n == IF step > 0 THEN PyFloorDiv(e - s, step) + 1 ELSE PyFloorDiv(s - e, -step) + 1
    IN IF n > 0 THEN n ELSE 0
\* the coercion to the declared type of the induction variable leaves the
\* start value and the step as they are
CoercionExact(s) == s.ty = "TYPE_REAL" \/ (s.a % Scale = 0 /\ s.c % Scale = 0)
\* executions of the loop body (the statement at line 2 of the For program)
BodyRuns == Count("exec", 2, 1)

\* C4 (as stated): the body of a For statement runs max(0, floor((e-s)/k)+1)
\* times for k > 0 and max(0, floor((s-e)/(-k))+1) times for k < 0, for an
\* integer or a real induction variable and any numeric s, e, k.
C4_CountFormula_AnyNumbers ==
    (CliRunEnded /\ src.p = "for") => BodyRuns = ForCount(src.a, src.b, src.c)

\* C4 (amended): the count formula holds, and the loop ends, when coercion to
\* the declared type of the induction variable changes neither the start
\* value nor the step: a real variable, or an integer variable with integer
\* start and step.
C4_CountFormula_ExactCoercion ==
    (src.p = "for" /\ CoercionExact(src)) =>
        /\ NExec < MaxExec
        /\ CliRunEnded => /\ outcome.kind = "returned"
                          /\ BodyRuns = ForCount(src.a, src.b, src.c)

\* C4 witness: a real variable counted down by a fractional step, three
\* iterations or more
C4_FractionalCountdown ==
    /\ CliRunEnded /\ src.p = "for"
    /\ src.ty = "TYPE_REAL" /\ src.c < 0 /\ src.c % Scale # 0
    /\ BodyRuns >= 3

Sign(n) == IF n > 0 THEN 1 ELSE IF n < 0 THEN -1 ELSE 0
\* the quotient truncated toward zero: sign(a*b) * floor(|a| / |b|)
TruncQuot(a, b) == Sign(a * b) * (Abs(a) \div Abs(b))

\* C5: for integers a and b, b # 0, a DIV b is the quotient truncated
\* toward zero.
C5_DivTruncatesTowardZero ==
    (CliRunEnded /\ src.p = "divmod" /\ src.ty = "DIV" /\ src.b # 0) =>
        /\ outcome.kind = "returned"
        /\ envs[1].values.x = IntV(TruncQuot(src.a, src.b))

\* C6: for integers a and b, b # 0, a MOD b and a % b are the truncated
\* remainder a - b * trunc(a / b), which has the sign of a.
C6_ModIsTruncatedRemainder ==
    (CliRunEnded /\ src.p = "divmod" /\ src.ty \in {"MOD", "MOD_SYM"} /\ src.b # 0) =>
        /\ outcome.kind = "returned"
        /\ envs[1].values.x = IntV(src.a - src.b * TruncQuot(src.a, src.b))

\* the Python type of the values of a declared base type
TypeOf(base) ==
    CASE base = "TYPE_INT" -> "int"
      [] base = "TYPE_REAL" -> "float"
      [] base = "TYPE_CHAR" -> "str"
      [] base = "TYPE_BOOL" -> "bool"
\* the values held under a name: the scalar, or every cell of the array
Cells(info, val) ==
    IF info.dims = <<>> THEN {val}
    ELSE IF Len(info.dims) = 1 THEN {val[i] : i \in DOMAIN val}
    ELSE UNION {{val[i][j] : j \in DOMAIN val[i]} : i \in DOMAIN val}

\* C7: the value stored under every declared scalar and in every array cell
\* of every environment has the declared base type of the name.
C7_StoredValuesTyped ==
    \A e \in DOMAIN envs : \A n \in DOMAIN envs[e].types :
        \A c \in Cells(envs[e].types[n], envs[e].values[n]) :
            c.t = TypeOf(envs[e].types[n].base)

\* C7 witness: a real assigned to an integer cell, inputs read into an
\* integer cell and a boolean, a real induction variable stepped by an
\* integer, and a real bound to an integer parameter
C7_CoercedStores ==
    /\ src.p = "types" /\ envs # <<>>
    /\ envs[1].values.A[0] = IntV(1)
    /\ envs[1].values.A[1] = IntV(-3)
    /\ envs[1].values.b = BoolV(TRUE)
    /\ envs[1].values.r = FloatV(2 * Scale)
    /\ outputs # <<>> /\ outputs[1] = "2 1.0"

\* every array of every environment has the declared shape
ShapeOK ==
    \A e \in DOMAIN envs : \A n \in DOMAIN envs[e].types :
        LET dims == envs[e].types[n].dims
            val == envs[e].values[n]
        IN /\ Len(dims) >= 1 => DOMAIN val = 0..(dims[1] - 1)
           /\ Len(dims) = 2 => \A i \in DOMAIN val : DOMAIN val[i] = 0..(dims[2] - 1)

\* the array access the executor is about to make: Env.get or Env.set with
\* indices on a name declared as an array
AccOwner == Env_find_owner(envs, Top.env, Top.name)
AccInfo == envs[AccOwner].types[Top.name]
AccIdx == IndexValues(vs, Top.n)
ArrayAccess ==
    /\ Running
    /\ Top.op \in {"assign_set", "read_set", "array_get"}
    /\ Top.n > 0
    /\ AccOwner # 0
    /\ AccInfo.dims # <<>>
InRange ==
    /\ Len(AccIdx) = Len(AccInfo.dims)
    /\ \A d \in 1..Len(AccIdx) : 1 <= AccIdx[d] /\ AccIdx[d] <= AccInfo.dims[d]
\* the cell of an array at 0-based position z
Cell(arr, z) == IF Len(z) = 1 THEN arr[z[1]] ELSE arr[z[1]][z[2]]
Positions(dims) ==
    IF Len(dims) = 1 THEN {<<i>> : i \in 0..(dims[1] - 1)}
    ELSE {<<i, j>> : i \in 0..(dims[1] - 1), j \in 0..(dims[2] - 1)}
\* every variable other than the array accessed is as it was
OthersUnchanged ==
    /\ Len(envs') = Len(envs)
    /\ \A e \in DOMAIN envs :
          /\ envs'[e].types = envs[e].types
          /\ \A n \in DOMAIN envs[e].types :
                (e # AccOwner \/ n # Top.name) => envs'[e].values[n] = envs[e].values[n]

\* C8: an array access with an index below 1 or above the declared size, or
\* with the wrong number of indices, raises a runtime error and changes no
\* cell; an access in range with index i reads or writes cell i-1 and no
\* other; no array ever changes its shape.
C8_ArrayAccess ==
    [][/\ ShapeOK'
       /\ ArrayAccess =>
            LET z == [d \in 1..Len(AccIdx) |-> AccIdx[d] - 1]
                old == envs[AccOwner].values[Top.name]
                new == envs'[AccOwner].values[Top.name]
                c == Env_coerce(AccInfo.base, vs[Top.n + 1])
            IN IF ~InRange \/ (Top.op # "array_get" /\ ~c.ok)
               THEN /\ exc'.cls = "RuntimeErrorGlossa"
                    /\ k' = <<>>
                    /\ \A e \in 1..Len(envs') : envs'[e] = envs[e]
               ELSE IF Top.op = "array_get"
               THEN /\ exc' = NoExc
                    /\ envs' = envs
                    /\ vs' # <<>> /\ vs'[1] = Cell(old, z)
               ELSE /\ exc' = NoExc
                    /\ OthersUnchanged
                    /\ \A y \in Positions(AccInfo.dims) :
                          Cell(new, y) = IF y = z THEN c.val ELSE Cell(old, y)]_vars

\* C8 witness: an access out of range has raised after cells of a 1-D and of
\* a 2-D array were written in range
C8_OutOfRangeAfterWrites ==
    /\ src.p = "array" /\ envs # <<>>
    /\ exc.what = "εκτός ορίων"
    /\ envs[1].values.A[0] = IntV(10)
    /\ envs[1].values.M[1][0] = FloatV(3 * Scale)

\* C9: an environment just constructed (the root at the start of a run, the
\* child of every routine invocation) holds the default of its type under
\* every declared scalar and in every array cell.
C9_FreshEnvDefaults ==
    [][(Len(envs') > Len(envs) \/ (entry = "idle" /\ entry' # "idle")) =>
          LET fresh == envs'[Len(envs')]
          IN /\ DOMAIN fresh.values = DOMAIN fresh.types
             /\ ShapeOK'
             /\ \A n \in DOMAIN fresh.types :
                   \A c \in Cells(fresh.types[n], fresh.values[n]) :
                       c = CASE fresh.types[n].base = "TYPE_INT" -> [t |-> "int", v |-> 0]
                             [] fresh.types[n].base = "TYPE_REAL" -> [t |-> "float", v |-> 0]
                             [] fresh.types[n].base = "TYPE_CHAR" -> [t |-> "str", v |-> ""]
                             [] fresh.types[n].base = "TYPE_BOOL" -> [t |-> "bool", v |-> FALSE]]_vars

\* C9 witness: the environment of the inner call of a recursion has just been
\* constructed while the outer call holds values in the same locals
C9_FreshInRecursion ==
    /\ src.p = "rec"
    /\ Running /\ Top.op = "call_bind"
    /\ Len(envs) = 3
    /\ envs[2].values.t # IntV(0) /\ envs[2].values.A[0] # IntV(0)
    /\ envs[3].values.t = IntV(0) /\ envs[3].values.A[0] = IntV(0)

\* the nearest enclosing try block of a call, from frame j of kk on (0: none)
RECURSIVE NearestHandler(_, _)
NearestHandler(kk, j) ==
    IF j > Len(kk) THEN 0
    ELSE IF kk[j].op \in {"proc_end", "func_end"} THEN j
    ELSE NearestHandler(kk, j + 1)
\* function calls in progress
FuncFrames(kk) == Cardinality({j \in DOMAIN kk : kk[j].op = "func_end"})
\* the value v as a value of the declared type tp, where there is one
Returnable(tp, v) ==
    IF tp \in {"TYPE_INT", "TYPE_REAL"} THEN v.t \in {"int", "float", "bool"}
    ELSE v.t = TypeOf(tp)
Returned(tp, v) ==
    LET n == IF v.t = "bool" THEN (IF v.v THEN 1 ELSE 0) ELSE v.v
    IN IF tp = "TYPE_INT"
       THEN [t |-> "int", v |-> IF v.t = "float" THEN TruncQuot(n, Scale) ELSE n]
       ELSE IF tp = "TYPE_REAL"
       THEN [t |-> "float", v |-> IF v.t = "float" THEN n ELSE n * Scale]
       ELSE v

\* C10: a Return executed in a function body ends the call with the returned
\* value coerced to the declared return type, whatever was left to run in
\* the body is dropped; a body that ends without a Return raises a runtime
\* error; a function call ends with a value in no other way.
C10_FunctionReturn ==
    [][/\ (Running /\ Top.op = "return_raise" /\ NearestHandler(k, 1) # 0) =>
            LET h == NearestHandler(k, 1)
            IN k[h].op = "func_end" =>
                 IF Returnable(k[h].return_type, vs[1])
                 THEN /\ exc' = NoExc
                      /\ k' = SubSeq(k, h + 1, Len(k))
                      /\ vs' # <<>> /\ vs'[1] = Returned(k[h].return_type, vs[1])
                      /\ log' = log /\ outputs' = outputs
                 ELSE exc'.cls = "RuntimeErrorGlossa" /\ k' = <<>>
       /\ (Running /\ Top.op = "func_end") => (exc'.cls = "RuntimeErrorGlossa" /\ k' = <<>>)
       /\ (FuncFrames(k') < FuncFrames(k) /\ exc' = NoExc) =>
            (Running /\ Top.op = "return_raise")]_vars

\* C10 witness: f(2) has returned 2.5 from inside the IF inside the second
\* iteration of its loop, and the call has the integer value 2
C10_ReturnedFromLoop ==
    /\ src.p = "ret" /\ src.a = 2
    /\ Running /\ Top.op = "assign_set" /\ Top.name = "q"
    /\ vs # <<>> /\ vs[1] = IntV(2)
    /\ outputs = <<"iter">>

\* C11: a Return executed in a procedure body raises the runtime error of
\* that procedure call, also when the procedure was called from a function
\* body: the call of the function does not end with the returned value.
C11_ReturnInProcedure ==
    [][(Running /\ Top.op = "return_raise" /\ NearestHandler(k, 1) # 0) =>
          (k[NearestHandler(k, 1)].op = "proc_end" =>
              /\ k' = <<>>
              /\ exc' = Exc("RuntimeErrorGlossa", "Η διαδικασία δεν μπορεί να επιστρέψει τιμή")
              /\ outputs' = outputs /\ log' = log)]_vars

\* C11 witness: the Return of P, inside IF inside WHILE, called from the
\* body of F, has ended the run with the error of the procedure call
C11_ReturnInProcedureInFunction ==
    /\ src.p = "retproc" /\ src.c = 0 /\ src.a = 2
    /\ entry = "idle" /\ runs = 1
    /\ outcome = [kind |-> "raised", cls |-> "RuntimeErrorGlossa"]
    /\ exc.what = "Η διαδικασία δεν μπορεί να επιστρέψει τιμή"
    /\ outputs = <<>>

\* C12: a Return executed outside any routine call makes compile_and_run
\* raise a runtime error, never FunctionReturn, and no statement after the
\* Return is executed.
C12_ReturnAtTopLevel ==
    [][/\ (Running /\ Top.op = "return_raise" /\ NearestHandler(k, 1) = 0) =>
            (k' = <<>> /\ exc'.cls = "FunctionReturn" /\ outputs' = outputs /\ log' = log)
       /\ (host = "cli" /\ exc.cls = "FunctionReturn") =>
            /\ outputs' = outputs /\ log' = log /\ envs' = envs
            /\ outcome' = [kind |-> "raised", cls |-> "RuntimeErrorGlossa"]
       /\ host = "cli" => outcome'.cls # "FunctionReturn"]_vars

\* C12 witness: the Return in the second iteration of the top-level loop has
\* ended the run
C12_ReturnedFromTopLevelLoop ==
    /\ src.p = "topret" /\ src.a = 2
    /\ CliRunEnded
    /\ outcome = [kind |-> "raised", cls |-> "RuntimeErrorGlossa"]
    /\ outputs = <<"a", "b">>

\* the integer an arm value of SelectArms denotes
ArmInts(arm) == {arm.values[j].value.v : j \in DOMAIN arm.values}

\* the position of the first arm in textual order with a value equal to a
\* (0: none), and the positions of the default arms
FirstMatch(arms, a) ==
    LET hits == {j \in DOMAIN arms : ~arms[j].else /\ a \in ArmInts(arms[j])}
    IN IF hits = {} THEN 0 ELSE CHOOSE j \in hits : \A h \in hits : j <= h
Defaults(arms) == {j \in DOMAIN arms : arms[j].else}

\* the texts written by the bodies of a Select with these arms on scrutinee
\* a: the body of the first matching arm, else the default body if any
SelectBodies(arms, a) ==
    IF FirstMatch(arms, a) # 0 THEN <<arms[FirstMatch(arms, a)].body[1].exprs[1].value.v>>
    ELSE IF Defaults(arms) # {} THEN <<"other">>
    ELSE <<>>

\* C13: a Select evaluates its scrutinee once, runs the body of the first
\* arm in textual order with a value equal to it and no other body, and
\* runs the default body exactly when no arm matches and there is a default.
C13_SelectFirstMatch ==
    (src.p = "select" /\ Cardinality(Defaults(SelectArms(src))) <= 1 /\ CliRunEnded) =>
        /\ outcome.kind = "returned"
        /\ outputs = <<"eval">> \o SelectBodies(SelectArms(src), src.a) \o <<"end">>

\* C13 witness: the scrutinee 2 is in both arms, the run has ended after the
\* body of the one that comes first in the text (the arms swapped)
C13_SecondArmAlsoMatches ==
    /\ src.p = "select" /\ src.a = 2 /\ src.b = 1 /\ src.c = 1
    /\ CliRunEnded
    /\ outputs = <<"eval", "mid", "end">>

\* some arm follows a default arm
ArmAfterDefault(arms) == \E d \in Defaults(arms) : d < Len(arms)

\* C14: a ΕΠΙΛΕΞΕ in which an arm (a value arm or a second default) follows
\* the default arm is rejected by the parser: no run of it starts and the
\* attempt ends with a ParseError.
C14_DefaultMustBeLast ==
    (src.p = "select" /\ ArmAfterDefault(SelectArms(src))) =>
        /\ entry = "idle"
        /\ runs > 0 => outcome.cls = "ParseError"

\* what the program "halt" has written when its run ends: "p", "next" for
\* every iteration before the one in which F divides by zero
HaltOutputs(a) ==
    LET n == IF a = 0 THEN 3 ELSE a - 1
    IN [j \in 1..(2 * n) |-> IF j % 2 = 1 THEN "p" ELSE "next"]
       \o (IF a = 0 THEN <<"end">> ELSE <<>>)

\* C15: the step that raises a runtime error leaves no activation pending
\* and writes nothing; from then on nothing is executed, written, read or
\* stored, and the caller of the executor gets the error.
C15_ErrorHalts ==
    [][/\ (Running /\ exc'.cls = "RuntimeErrorGlossa") =>
            (k' = <<>> /\ outputs' = outputs)
       /\ (entry # "idle" /\ exc.cls = "RuntimeErrorGlossa") =>
            /\ IF suspended = <<>>
               THEN entry' = "idle" /\ UNCHANGED <<k, vs, envs, outputs, input_queue, log>>
               ELSE entry' = Head(suspended).entry /\ k' = Head(suspended).k
            /\ outcome' = IF host = "cli" THEN [kind |-> "raised", cls |-> "RuntimeErrorGlossa"]
                          ELSE [kind |-> "runtime_error", cls |-> "RuntimeErrorGlossa"]
       /\ (src.p = "halt" /\ CliRunEnded)' =>
            /\ outputs' = HaltOutputs(src.a)
            /\ outcome'.kind = (IF src.a = 0 THEN "returned" ELSE "raised")]_vars

\* C15 witness: the division by zero in F, called from P, called from the
\* second iteration of the loop of the main program, has ended the run
C15_HaltedInsideNestedCalls ==
    /\ src.p = "halt" /\ src.a = 2
    /\ CliRunEnded
    /\ outcome = [kind |-> "raised", cls |-> "RuntimeErrorGlossa"]
    /\ exc.what = "Διαίρεση με το μηδέν"
    /\ outputs = <<"p", "next">>

\* the name of a routine definition of the text is the name of another one
DefinedTwice(s) == RoutineItem(s.a).name = RoutineItem(s.b).name

\* C19: a program that defines two routines with the same name (of either
\* kind, on either side of ΤΕΛΟΣ_ΠΡΟΓΡΑΜΜΑΤΟΣ) is rejected with a ParseError
\* and nothing of it runs; a program that parses has every routine in
\* exactly one of the two tables.
C19_NoDuplicateRoutines ==
    (src.p = "routines" /\ runs > 0) =>
        IF DefinedTwice(src)
        THEN /\ entry = "idle" /\ envs = <<>> /\ outputs = <<>>
             /\ outcome.cls = "ParseError"
        ELSE /\ Parse(src).ok
             /\ DOMAIN Prog(src).procedures \cap DOMAIN Prog(src).functions = {}
             /\ DOMAIN Prog(src).procedures \cup DOMAIN Prog(src).functions = {"R", "S"}
             /\ outcome.cls # "ParseError"

\* C19 witness: function R before ΤΕΛΟΣ_ΠΡΟΓΡΑΜΜΑΤΟΣ and procedure R after it:
\* compile_and_run has raised the ParseError
C19_FunctionThenProcedureRejected ==
    /\ src.p = "routines" /\ src.a = 2 /\ src.b = 5
    /\ CliRunEnded
    /\ outcome = [kind |-> "raised", cls |-> "ParseError"]

\* every Env left after the step is as it was before it
EnvsKept == \A j \in DOMAIN envs' : j \in DOMAIN envs /\ envs'[j] = envs[j]

\* the store of value v under the scalar name declared in Env o with type tp:
\* refused with a runtime error and nothing changed, or done with the
\* value of the declared type
TypedStore(o, name, tp, v) ==
    IF Returnable(tp, v)
    THEN exc' = NoExc /\ envs'[o].values[name] = Returned(tp, v)
    ELSE exc'.cls = "RuntimeErrorGlossa" /\ EnvsKept

\* the parameters of the call about to be bound, and their values
BoundParams == RoutineDef(Top.kind, Top.name).params

\* C16: an assignment, a parameter binding or a function return whose value
\* is not of the type family of the target raises a runtime error and
\* changes no variable; a boolean target takes booleans only, a string
\* target strings only, a numeric target integers, reals and booleans (0/1),
\* an integer target truncating a real toward zero.
C16_TypeFamilies ==
    [][/\ (Running /\ Top.op = "assign_set" /\ Top.n = 0
             /\ Env_find_owner(envs, Top.env, Top.name) # 0) =>
            LET o == Env_find_owner(envs, Top.env, Top.name)
            IN envs[o].types[Top.name].dims = <<>> =>
                  TypedStore(o, Top.name, envs[o].types[Top.name].base, vs[1])
       /\ (Running /\ Top.op = "call_bind") =>
            IF \A j \in DOMAIN BoundParams : Returnable(BoundParams[j].type, Top.args[j])
            THEN /\ exc' = NoExc
                 /\ \A j \in DOMAIN BoundParams :
                       envs'[Top.child].values[BoundParams[j].name]
                           = Returned(BoundParams[j].type, Top.args[j])
            ELSE /\ exc'.cls = "RuntimeErrorGlossa" /\ EnvsKept
                 /\ outputs' = outputs
       /\ (Running /\ Top.op = "return_raise" /\ NearestHandler(k, 1) # 0) =>
            LET h == k[NearestHandler(k, 1)]
            IN h.op = "func_end" =>
                  IF Returnable(h.return_type, vs[1])
                  THEN exc' = NoExc /\ vs'[1] = Returned(h.return_type, vs[1])
                  ELSE exc'.cls = "RuntimeErrorGlossa" /\ EnvsKept]_vars

\* C16 witness: the assignment of 3 to the boolean t has ended the run with
\* a runtime error, t still holds ΑΛΗΘΗΣ
C16_NumberRefusedByBoolean ==
    /\ src.p = "coerce" /\ src.ty = "TYPE_BOOL" /\ src.a = 0 /\ src.c = 0
    /\ CliRunEnded
    /\ outcome = [kind |-> "raised", cls |-> "RuntimeErrorGlossa"]
    /\ envs[1].values.t = BoolV(TRUE)
    /\ outputs = <<>>

\* every Env but number e is, after the step, as it was before it
OnlyEnvChanged(e) ==
    \A j \in DOMAIN envs' : (j # e /\ j \in DOMAIN envs) => envs'[j] = envs[j]

\* C17: in a routine body a read or a write of a name that is a parameter or
\* a local of the routine uses the environment of the call; binding the
\* parameters changes that environment only, and the end of the call
\* leaves the environments of the callers as they are: the variables of the
\* caller and the globals with those names keep their values.
C17_ParametersShadow ==
    [][/\ (Running /\ Top.op = "assign_set" /\ Top.name \in DOMAIN envs[Top.env].types) =>
            OnlyEnvChanged(Top.env)
       /\ (Running /\ Top.op = "eval" /\ Top.e.node = "Var") =>
            ((Top.e.name \in DOMAIN envs[Top.env].types /\ exc' = NoExc) =>
                vs'[1] = envs[Top.env].values[Top.e.name])
       /\ (Running /\ Top.op = "call_bind") =>
            /\ OnlyEnvChanged(Top.child)
            /\ exc' = NoExc =>
                 \A j \in DOMAIN BoundParams :
                    envs'[Top.child].values[BoundParams[j].name].v
                        = Returned(BoundParams[j].type, Top.args[j]).v
       /\ (Running /\ Top.op \in {"proc_end", "func_end"}) => EnvsKept
       /\ (Running /\ Top.op = "return_raise") => EnvsKept
       /\ (src.p = "scope" /\ CliRunEnded)' => outputs' = <<"7", "9 8", "1 0">>]_vars

\* C17 witness: P has set its parameter n to 0 and returned to F, whose own
\* parameter n, the argument of the call, is still 1
C17_CallerKeepsItsParameter ==
    /\ src.p = "retproc" /\ src.c = 0 /\ src.a = 1
    /\ Running /\ Len(envs) = 2
    /\ outputs = <<"p">>
    /\ envs[2].values.n = IntV(1)

\* a call starts in this step: the call in the text and the table of the
\* routines of its kind
CallStarts == Running /\ (AtStmt("ProcCall") \/ (Top.op = "eval" /\ Top.e.node = "FuncCall"))
CallSite == IF Top.op = "stmts" THEN Stmt ELSE Top.e
CallTable == IF Top.op = "stmts" THEN Prog(src).procedures ELSE Prog(src).functions

\* what the program "arity" has written when its run ends
ArityOutputs(b, c) ==
    IF b # 2 THEN <<>>
    ELSE <<"1", "2", "1 2">> \o (IF c = 0 THEN <<"end">> ELSE <<"12">>)

\* C18: a call with a number of arguments other than the number of
\* parameters raises a runtime error in the step that starts it, before any
\* argument is evaluated and before the body; with the right number, the
\* next things done are the evaluations of the arguments, first to last, in
\* the environment of the caller, and only then the new environment and the
\* body.
C18_ArityBeforeArguments ==
    [][/\ (CallStarts /\ CallSite.name \in DOMAIN CallTable) =>
            IF Len(CallSite.args) # Len(CallTable[CallSite.name].params)
            THEN /\ exc'.cls = "RuntimeErrorGlossa" /\ k' = <<>>
                 /\ outputs' = outputs /\ EnvsKept /\ Len(envs') = 1
            ELSE /\ exc' = NoExc /\ envs' = envs
                 /\ Len(k') > Len(CallSite.args)
                 /\ \A j \in DOMAIN CallSite.args :
                       k'[j] = [op |-> "eval", e |-> CallSite.args[j], env |-> Top.env]
                 /\ k'[Len(CallSite.args) + 1].op = "call_env"
                 /\ k'[Len(CallSite.args) + 1].name = CallSite.name
       /\ (src.p = "arity" /\ CliRunEnded)' =>
            /\ outputs' = ArityOutputs(src.b, src.c)
            /\ outcome'.kind = (IF src.b = 2 THEN "returned" ELSE "raised")]_vars

\* C18 witness: F(g(1), g(2), g(3)) for the two parameters of F has ended the
\* run with a runtime error and no g has written anything
C18_ThreeArgumentsForTwo ==
    /\ src.p = "arity" /\ src.b = 3 /\ src.c = 1
    /\ CliRunEnded
    /\ outcome = [kind |-> "raised", cls |-> "RuntimeErrorGlossa"]
    /\ exc.what = "αναμένει ορίσματα"
    /\ outputs = <<>>

\* the target the pending ΔΙΑΒΑΣΕ reads next, the Env that declares it, and
\* the next input line as a value of its declared type
ReadTarget == Top.targets[Top.j]
ReadOwner == Env_find_owner(envs, Top.env, ReadTarget.name)
ReadValue ==
    LET base == envs[ReadOwner].types[ReadTarget.name].base
    IN Env_coerce(base, ConvertInput(Head(input_queue), base).val).val

\* C20: every target of a ΔΙΑΒΑΣΕ takes exactly one input line, the first
\* one not yet taken, and nothing else takes input lines: the k-th target
\* read in a run receives the k-th line.  A target reached with no input
\* left raises a runtime error and no variable changes.
C20_OneLinePerTarget ==
    [][/\ (Running /\ Top.op = "read" /\ ExecutorStep) =>
            IF input_queue = <<>>
            THEN exc'.cls = "RuntimeErrorGlossa" /\ EnvsKept /\ input_queue' = <<>>
            ELSE /\ input_queue' = Tail(input_queue)
                 /\ (exc' = NoExc /\ ReadOwner # 0) =>
                       IF ReadTarget.node = "Var"
                       THEN envs'[ReadOwner].values[ReadTarget.name] = ReadValue
                       ELSE vs'[1].v = ReadValue.v /\ envs' = envs
       /\ (entry # "idle" /\ SameExecution /\ ~(Running /\ Top.op = "read" /\ ExecutorStep)) =>
            input_queue' = input_queue
       /\ (src.p = "read" /\ CliRunEnded)' =>
            /\ <<envs'[1].values.x, envs'[1].values.y, envs'[1].values.A[0]>>
                   \in {<<IntV(0), IntV(0), IntV(0)>>, <<IntV(1), IntV(0), IntV(0)>>,
                        <<IntV(1), IntV(7), IntV(0)>>, <<IntV(1), IntV(7), IntV(-3)>>}
            /\ envs'[1].values.A[0] = IntV(-3) <=> outcome'.kind = "returned"
            /\ outcome'.kind = "returned" => outputs' = <<"1", "7 -3">>]_vars

\* C20 witness: with one input line, the first target i has received it and
\* the second target r, reached with no input left, has ended the run with
\* a runtime error and keeps its value
C20_SecondTargetWithoutInput ==
    /\ src.p = "types"
    /\ CliRunEnded
    /\ exc = Exc("RuntimeErrorGlossa", "Απαιτείται είσοδος")
    /\ envs[1].values.i = IntV(7)
    /\ envs[1].values.r = FloatV(0)

\* the input line number a is a number of the declared type ty
ValidNumber(ty, a) == a = 1 \/ (a = 3 /\ ty = "TYPE_REAL")

\* C21: a ΔΙΑΒΑΣΕ of an integer or real target given a line that is not a
\* number of that type ends the run with RuntimeErrorGlossa, and the target
\* keeps the value it had.
C21_BadNumberIsRuntimeError ==
    (src.p = "readnum" /\ ~ValidNumber(src.ty, src.a) /\ CliRunEnded) =>
        /\ outcome = [kind |-> "raised", cls |-> "RuntimeErrorGlossa"]
        /\ envs[1].values.t.v = (IF src.ty = "TYPE_INT" THEN 1 ELSE Scale)

\* the literal number a of the programs "order" is a string
IsStrLit(a) == a = 3

\* C22: an ordering comparison of a string with a number or a boolean ends
\* the run with RuntimeErrorGlossa; numbers with numbers and strings with
\* strings give a boolean.
C22_MixedOrderingIsRuntimeError ==
    (src.p = "order" /\ CliRunEnded) =>
        IF IsStrLit(src.a) = IsStrLit(src.b)
        THEN outcome.kind = "returned" /\ outputs \in {<<"ΑΛΗΘΗΣ">>, <<"ΨΕΥΔΗΣ">>}
        ELSE outcome = [kind |-> "raised", cls |-> "RuntimeErrorGlossa"]

\* C23: /, DIV, MOD or % applied to a right operand equal to zero raises a
\* runtime error, and the statement it is part of stores nothing and writes
\* nothing.
C23_DivisionByZero ==
    [][/\ (Running /\ Top.op = "binop" /\ Top.o \in {"DIVIDE", "DIV", "MOD", "MOD_SYM"}
             /\ PyEq(vs[1], IntV(0))) =>
            /\ exc'.cls = "RuntimeErrorGlossa" /\ k' = <<>>
            /\ outputs' = outputs /\ EnvsKept
       /\ (src.p = "zero" /\ CliRunEnded)' =>
            /\ outcome' = [kind |-> "raised", cls |-> "RuntimeErrorGlossa"]
            /\ outputs' = <<>>
            /\ envs'[1].values.x = FloatV(5 * Scale)]_vars

\* C23 witness: ΓΡΑΨΕ "w", 3 MOD 0.0 has ended the run with the runtime
\* error, nothing was written and x is still 5
C23_ModByRealZeroInWrite ==
    /\ src.p = "zero" /\ src.ty = "MOD" /\ src.a = 3 /\ src.b = 1 /\ src.c = 1
    /\ CliRunEnded
    /\ exc = Exc("RuntimeErrorGlossa", "Υπόλοιπο με το μηδέν")
    /\ outputs = <<>>
    /\ envs[1].values.x = FloatV(5 * Scale)

\* what the program "repeat" has written when its run ends: the value of n
\* and then "test", once for n = a, a + 1, ... up to the first n with
\* n + 1 >= b, and "end"
RepeatCount(a, b) == IF b - a > 1 THEN b - a ELSE 1
RepeatOutputs(a, b) ==
    [j \in 1..(2 * RepeatCount(a, b)) |->
        IF j % 2 = 1 THEN ToString(a + (j - 1) \div 2) ELSE "test"] \o <<"end">>

\* C24: a Repeat starts with its body, not with its condition; after every
\* execution of the body the condition is evaluated, and the loop ends
\* exactly when it is true, else the body comes again.
C24_RepeatUntil ==
    [][/\ (Running /\ AtStmt("Repeat") /\ Stmt.body # <<>>) =>
            /\ k'[1].op = "stmts" /\ k'[1].stmts = Stmt.body
            /\ k'[2] = EvalFrame(Stmt.cond, Top.env)
            /\ k'[3].op = "repeat_test"
            /\ vs' = vs
       /\ (Running /\ Top.op = "repeat_test") =>
            IF Truthy(vs[1]) THEN k' = Rest
            ELSE Top.st.body # <<>> =>
                    /\ k'[1].op = "stmts" /\ k'[1].stmts = Top.st.body
                    /\ k'[2] = EvalFrame(Top.st.cond, Top.env)
                    /\ k'[3] = Top
       /\ (src.p = "repeat" /\ CliRunEnded)' =>
            outputs' = RepeatOutputs(src.a, src.b)]_vars

\* C24 witness: the condition n >= 0 was true from the start, the body has
\* run once before the one test and the run has ended
C24_BodyOnceWhenConditionHolds ==
    /\ src.p = "repeat" /\ src.a = 2 /\ src.b = 0
    /\ CliRunEnded
    /\ outputs = <<"2", "test", "end">>

\* the hook is about to be called for a statement of a debug session
AtBefore == Debugger /\ Running /\ Top.op = "stmts" /\ Top.pc = "before" /\ NExec < MaxExec
\* the interpreter sits in wait_variable and no control has arrived
Blocked == Paused /\ debug_wait_var = FALSE

\* in step mode the call of before_statement for every statement blocks;
\* while it is blocked nothing of the program runs; the call a control has
\* released starts its own statement, or raises the stop signal
StepModeBlocks ==
    /\ (AtBefore /\ ~debug_continue_mode /\ ~debug_stop_requested) =>
          /\ Paused' /\ debug_wait_var' = FALSE
          /\ k' = <<[Top EXCEPT !.pc = "wait"]>> \o Rest
    /\ Blocked => UNCHANGED <<k, vs, envs, outputs, input_queue, log, exc>>
    /\ (Paused /\ debug_wait_var = TRUE) =>
          /\ debug_wait_var' = TRUE
          /\ IF debug_stop_requested THEN exc' = DebugStopExc /\ k' = <<>>
             ELSE k' = <<[Top EXCEPT !.pc = "exec"]>> \o Rest

\* a session in continue mode does not block and stays in continue mode
\* until it ends
ContinueLasts ==
    (Debugger /\ debug_continue_mode /\ ~Paused) =>
        /\ ~Paused'
        /\ (entry' = "debug" /\ SameExecution) => debug_continue_mode'

\* C25: in step mode the call of before_statement for every statement
\* blocks until a control arrives, and nothing of the program runs while it
\* is blocked; each Step releases the before_statement of one statement; and
\* after Continue no before_statement blocks for the rest of the session.
C25_StepBlocksEveryStatement ==
    [][StepModeBlocks /\ ContinueLasts]_vars

\* C25 witness: a session in step mode whose ΔΙΑΒΑΣΕ has its dialog open,
\* where a Step or a Continue pressed earlier is handled
C25_ControlHandledInDialog ==
    /\ GuiReading /\ debug_active
    /\ debug_continue_mode
    /\ Top.j = 1
    /\ NExec >= 1

\* the activations of For statements in progress
ForFrames == {j \in DOMAIN k : k[j].op \in {"for_test", "for_incr"}}

\* C26: the end and the step of a For are the values its expressions had at
\* entry: in the program whose body sets the variable of the end
\* expression to 0 and the variable of the step expression to c, the loop
\* in progress keeps the bound a and the step 1, and the body runs for
\* i = 1, ..., a; when the two expressions are calls of a function that
\* writes, it has written twice, before the first iteration.
C26_ForBoundsFixedAtEntry ==
    src.p = "forbound" =>
        /\ \A j \in ForFrames : k[j].end = IntV(src.a) /\ k[j].step = IntV(1)
        /\ CliRunEnded =>
              /\ outputs = (IF src.b = 1 THEN <<"lim", "lim">> ELSE <<>>)
                              \o [j \in 1..src.a |-> ToString(j)] \o <<"end">>
              /\ outcome.kind = "returned"

\* C26 witness: the body has set e to 0 and d to 2 in its first execution,
\* and the loop has gone on to i = 3
C26_ThreeIterationsAfterBoundChanged ==
    /\ src.p = "forbound" /\ src.a = 3 /\ src.b = 1 /\ src.c = 2
    /\ CliRunEnded
    /\ outputs = <<"lim", "lim", "1", "2", "3", "end">>
    /\ envs[1].values.e = IntV(0) /\ envs[1].values.d = IntV(2)

\* C27: a For whose step is zero (0, 0.0 or ΨΕΥΔΗΣ) follows the ascending
\* rule.  With start > end the body never runs and the run ends.  With
\* start <= end and a body that leaves the induction variable alone the run
\* never ends: the variable keeps the value start, every line written is
\* start, and the loop in progress is an ascending one.  A body that
\* increments the variable runs for start, ..., end and the run ends.
C27_ZeroStepAscends ==
    src.p = "forzero" =>
        /\ \A j \in ForFrames : k[j].asc
        /\ src.a > src.b =>
              /\ outputs \in {<<>>, <<"end">>}
              /\ CliRunEnded => outputs = <<"end">> /\ outcome.kind = "returned"
        /\ (src.a <= src.b /\ src.c < 3) =>
              /\ ~CliRunEnded
              /\ exc = NoExc
              /\ \A j \in DOMAIN outputs : outputs[j] = ToString(src.a)
              /\ Len(outputs) <= NExec /\ NExec <= Len(outputs) + 2
        /\ (src.a <= src.b /\ src.c >= 3 /\ CliRunEnded) =>
              /\ outputs = [j \in 1..(src.b - src.a + 1) |-> ToString(src.a + j - 1)] \o <<"end">>
              /\ outcome.kind = "returned"

\* C27 witness: start = end and a step of 0.0; the body has run twenty
\* times and the loop goes on
C27_StillLoopingAfterTwentyBodies ==
    /\ src.p = "forzero" /\ src.a = 1 /\ src.b = 1 /\ src.c = 1
    /\ Len(outputs) >= 20
    /\ Running /\ Top.op = "for_test"
    /\ ForContinues(Top.asc, Env_get(envs, Top.env, "i", <<>>).val, Top.end).val.v

\* the truth value Python's bool() gives the operand a of the programs
\* "logic": the literals are ΨΕΥΔΗΣ, ΑΛΗΘΗΣ or 0, 1
LogicTruth(a) == a = 1

\* C28: a binary operation evaluates its left operand, then its right
\* operand, and applies the operator to the two values, whatever the operator
\* and whatever the left value: in f(a) ty g(b), for all fifteen operators,
\* f has written before g, and g has written before the operation gives a
\* value or an error; AND and OR give the conjunction and the disjunction of
\* the two truth values.
C28_BothOperandsLeftFirst ==
    [][/\ (Running /\ Top.op = "eval" /\ Top.e.node = "BinOp") =>
            /\ k'[1] = EvalFrame(Top.e.left, Top.env)
            /\ k'[2] = EvalFrame(Top.e.right, Top.env)
            /\ k'[3] = [op |-> "binop", o |-> Top.e.op]
            /\ Drop(k', 3) = Rest
       /\ (src.p = "logic" /\ CliRunEnded)' =>
            /\ Len(outputs') >= 2 /\ outputs'[1] = "f" /\ outputs'[2] = "g"
            /\ src.ty \in {"AND", "OR"} =>
                  /\ outcome'.kind = "returned"
                  /\ outputs' = <<"f", "g",
                                  IF (IF src.ty = "AND"
                                      THEN LogicTruth(src.a) /\ LogicTruth(src.b)
                                      ELSE LogicTruth(src.a) \/ LogicTruth(src.b))
                                  THEN "ΑΛΗΘΗΣ" ELSE "ΨΕΥΔΗΣ",
                                  "end">>]_vars

\* C28 witness: ΑΛΗΘΗΣ OR g(...), where the left operand decides alone, and
\* g has been called
C28_RightOfOrCalledAfterTrue ==
    /\ src.p = "logic" /\ src.ty = "OR" /\ src.a = 1 /\ src.b = 0 /\ src.c = 0
    /\ CliRunEnded
    /\ outputs = <<"f", "g", "ΑΛΗΘΗΣ", "end">>

\* the executions of Glossa programs in progress in the IDE
InProgress == Len(suspended) + (IF entry # "idle" THEN 1 ELSE 0)

\* C29: the IDE has at most one execution in progress; while a debug
\* session is active no run and no session is started, whatever button is
\* pressed; and a Step or a Continue handled by a paused session only
\* releases it.
C29_OneExecutionAtATime ==
    [][/\ host = "ide" => InProgress' <= 1
       /\ debug_active => runs' = runs
       /\ (GuiWaiting /\ debug_wait_var') =>
             /\ UNCHANGED <<entry, k, vs, envs, outputs, input_queue, log, exc, outcome>>
             /\ debug_active']_vars

\* C29 witness: a normal run started from inside the dialog of the first
\* ΔΙΑΒΑΣΕ target of a normal run, which waits for it
C29_RunInsideRun ==
    /\ host = "ide" /\ InProgress = 2
    /\ entry = "run" /\ Running
    /\ Head(suspended).entry = "run"
    /\ Head(suspended).k[1].op = "read"
    /\ ~debug_active

\* the debugger state of an IDE with no session
DebuggerReset ==
    /\ ~debug_active /\ ~debug_continue_mode /\ ~debug_stop_requested /\ ~debug_hook

\* C30: a debug session leaves the debugger state reset however it ends
\* (completion, runtime error, Return at top level, stop by the user), so
\* the IDE with no session has debug_active, debug_continue_mode and
\* debug_stop_requested false and no hook; a session starts with no stop
\* request, DebugStop is raised only on a request made in the session, and
\* a stop pressed with no session requests nothing; a text that does not
\* lex or parse starts no session.
C30_DebuggerStateReset ==
    [][/\ (host = "ide" /\ entry = "debug" /\ entry' # "debug") =>
             /\ DebuggerReset'
             /\ outcome'.kind \in {"completed", "runtime_error", "return_outside", "stopped",
                                   "unknown_error"}
             /\ outcome'.kind = "stopped" => debug_stop_requested
       /\ (host = "ide" /\ entry # "debug") => DebuggerReset
       /\ (host = "ide" /\ entry' # "debug") => DebuggerReset'
       /\ (entry # "debug" /\ entry' = "debug") =>
             /\ Parse(editor).ok
             /\ debug_active' /\ debug_hook' /\ ~debug_stop_requested'
       /\ (exc.cls # "DebugStop" /\ exc'.cls = "DebugStop") =>
             Debugger /\ debug_stop_requested
       /\ (~debug_stop_requested /\ debug_stop_requested') =>
             debug_active /\ (GuiWaiting \/ GuiReading) /\ SameExecution
       /\ (host = "ide" /\ runs' # runs /\ ~Parse(editor).ok) =>
             /\ UNCHANGED <<entry, k, debug_active, debug_hook>>
             /\ outcome'.kind = FailureKind(editor)]_vars

\* C30 witness: a second session, started after a first one was stopped by
\* the user or ended otherwise, has been stopped by the user and has left
\* the debugger state reset
C30_SecondSessionStoppedAndReset ==
    /\ host = "ide" /\ entry = "idle"
    /\ runs = 2
    /\ outcome.kind = "stopped"
    /\ DebuggerReset
    /\ NExec >= 1

====
